---- MODULE Spec2Model ----
(***************************************************************************)
(* ABCP_Search: the entity-extraction and confidence-scoring routine of    *)
(* WebSearchService (extractABCPInfoFromText), its document-analysis       *)
(* variant (extractABCPFromPDF), the text cleaner, the de-duplication and  *)
(* ordering of results, and the search itself: the form's submit handler,  *)
(* the query plan, the loop over the queries and the search history.       *)
(*                                                                         *)
(* A JavaScript string is a sequence of one-character strings.  An         *)
(* optional value (T | undefined, T | null) is a sequence of length 0      *)
(* (absent) or 1 (present).  A confidence is kept in tenths: the code adds *)
(* 0.3, 0.2 and 0.4 and clamps at 1.0, the model adds 3, 2 and 4 and       *)
(* clamps at 10.                                                           *)
(***************************************************************************)
EXTENDS Integers, Sequences, FiniteSets, TLC

VARIABLES
    pc,             \* position of the call under study
    content,        \* extract*: the text block
    issuerName,     \* the issuer searched for
    fileName,       \* extractABCPFromPDF: the uploaded file's name
    extractedData,  \* what the extractor returned (absent = null)
    captured,       \* cleanExtractedText: its argument
    cleanedText,    \* cleanExtractedText: its result
    results,        \* searchABCPLiquidityProviders: the records pushed
    uniqueResults,  \* removeDuplicates: its result
    searchResults,  \* what searchABCPLiquidityProviders returned
    formInput,      \* ABCPSearchForm: the issuer field as typed
    apiKey,         \* localStorage web_search_api_key (absent = null)
    selectedApi,    \* localStorage selected_search_api
    searchQueries,  \* the query plan of the search
    searchAttempts, \* queries attempted so far
    responses,      \* what performWebSearch gave for each query attempted
    error,          \* the error the search threw to its caller (absent = none)
    history,        \* localStorage abcp_search_history, parsed
    clock,          \* Date.now()
    saved,          \* searches saved since the page was loaded
    crawl,          \* FirecrawlService.crawlWebsite: its locals and what it returned
    form,           \* ABCPSearchForm: isSearching, searchProgress, running intervals
    calls,          \* searchABCPLiquidityProviders: the locals of concurrent calls
    requests        \* part_006 performWebSearch: how each provider request ended

extractVars == <<content, issuerName, fileName, extractedData>>
cleanVars == <<captured, cleanedText>>
dedupVars == <<results, uniqueResults>>
searchVars == <<searchResults, formInput, apiKey, selectedApi, searchQueries, searchAttempts,
                responses, error>>
historyVars == <<history, clock, saved>>
sideVars == <<crawl, form, calls, requests>>
vars == <<pc, extractVars, cleanVars, dedupVars, searchVars, historyVars, sideVars>>

(***************************************************************************)
(* Strings                                                                 *)
(***************************************************************************)
Undefined == <<>>
Some(x) == <<x>>
IsSet(o) == Len(o) = 1

\* no crawl started, the form at rest, no concurrent call
NoCrawl == [pc |-> "idle", apiKey |-> <<>>, starts |-> 0, start |-> <<>>, attempts |-> 0,
            polls |-> 0, waited |-> 0, last |-> <<>>, result |-> <<>>]
FormAtRest == [isSearching |-> FALSE, searchProgress |-> 0, intervals |-> 0]
NoSide == crawl = NoCrawl /\ form = FormAtRest /\ calls = <<>> /\ requests = <<>>

\* no search under way and nothing stored
NoSearch ==
    /\ NoSide
    /\ searchResults = <<>> /\ formInput = <<>> /\ apiKey = Undefined
    /\ selectedApi = "google" /\ searchQueries = <<>> /\ searchAttempts = 0
    /\ responses = <<>> /\ error = Undefined
    /\ history = <<>> /\ clock = 0 /\ saved = 0

UpperCase == <<"A","B","C","D","E","F","G","H","I","J","K","L","M","N","O","P","Q","R","S","T","U","V","W",
        "X","Y","Z">>
LowerCase == <<"a","b","c","d","e","f","g","h","i","j","k","l","m","n","o","p","q","r","s","t","u","v","w",
        "x","y","z">>
Digits == {"0", "1", "2", "3", "4", "5", "6", "7", "8", "9"}

LowerTable ==
    [c \in {UpperCase[i] : i \in 1..26} |->
        LowerCase[CHOOSE i \in 1..26 : UpperCase[i] = c]]

Lower(c) == IF c \in DOMAIN LowerTable THEN LowerTable[c] ELSE c

IsLetter(c) == Lower(c) \in {LowerCase[i] : i \in 1..26}

\* String.prototype.toLowerCase
toLowerCase(s) == [i \in 1..Len(s) |-> Lower(s[i])]

\* String.prototype.includes
includes(s, t) ==
    \E i \in 0..(Len(s) - Len(t)) : \A j \in 1..Len(t) : s[i + j] = t[j]

\* the characters \s matches, and String.prototype.trim removes
IsSpace(c) == c \in {" ", "\t", "\n", "\r"}

SetMin(S) == CHOOSE x \in S : \A y \in S : x <= y
SetMax(S) == 0 - SetMin({0 - x : x \in S})
Min(a, b) == IF a <= b THEN a ELSE b

(***************************************************************************)
(* Regular expressions.  A pattern is a sequence of atoms, matched by      *)
(* backtracking as the JavaScript engine does, all with the flags g and i. *)
(***************************************************************************)
Lit(w) == [i \in 1..Len(w) |-> [k |-> "lit", c |-> Lower(w[i])]]
\* cls{min,max}, and cls{min,} (+ and * among them); lazy when not greedy
Rep(cls, min, max, greedy) ==
    <<[k |-> "rep", cls |-> cls, min |-> min, capped |-> TRUE, max |-> max,
       greedy |-> greedy]>>
RepFrom(cls, min, greedy) ==
    <<[k |-> "rep", cls |-> cls, min |-> min, capped |-> FALSE, max |-> min,
       greedy |-> greedy]>>
Alt(ws) == <<[k |-> "alt", ws |-> ws]>>
Cap == <<[k |-> "cap"]>>

Ws1 == RepFrom("\\s", 1, TRUE)                   \* \s+
Sep1 == RepFrom("[:\\s]", 1, TRUE)               \* [:\s]+
NotDot1 == RepFrom("[^.]", 1, TRUE)              \* [^.]+
Capture1 == Sep1 \o Cap \o NotDot1               \* [:\s]+([^.]+)
Facility == Lit(<<"f","a","c","i","l","i","t">>) \o Rep("[y|ies]", 1, 1, TRUE)   \* facilit[y|ies]

InClass(cls, c) ==
    CASE cls = "\\s" -> IsSpace(c)
      [] cls = "[:\\s]" -> c = ":" \/ IsSpace(c)
      [] cls = "[^.]" -> c # "."
      [] cls = "[s]" -> Lower(c) = "s"
      [] cls = "[y|ies]" -> Lower(c) \in {"y", "|", "i", "e", "s"}
      [] cls = "[\\d,]" -> c \in Digits \/ c = ","
      [] cls = "[^\\n]" -> c # "\n"
      [] cls = "[^.\\n]" -> c # "." /\ c # "\n"
      [] cls = "[A-Z]" -> IsLetter(c)

\* how many characters of class cls follow from position i
RunLen(cls, s, i) ==
    LET stops == {j \in i..Len(s) : ~InClass(cls, s[j])}
    IN  IF stops = {} THEN Len(s) + 1 - i ELSE SetMin(stops) - i

LitAt(w, s, i) ==
    /\ i + Len(w) - 1 <= Len(s)
    /\ \A j \in 1..Len(w) : Lower(s[i + j - 1]) = Lower(w[j])

NoMatch == [ok |-> FALSE, from |-> 0, to |-> 0]

\* atoms k.. of pattern p against s from position i; from..to-1 is group 1.
\* A quantifier tries its repetition counts in the engine's order, most first
\* when greedy and fewest first when lazy, and keeps the first count with
\* which the rest of the pattern matches.
RECURSIVE Match(_, _, _, _, _), TryAlt(_, _, _, _, _, _)
Match(p, s, i, k, cap) ==
    IF k > Len(p) THEN [ok |-> TRUE, from |-> cap, to |-> i]
    ELSE LET a == p[k] IN
        CASE a.k = "lit" ->
                IF i <= Len(s) /\ Lower(s[i]) = a.c
                THEN Match(p, s, i + 1, k + 1, cap) ELSE NoMatch
          [] a.k = "cap" -> Match(p, s, i, k + 1, i)
          [] a.k = "alt" -> TryAlt(p, s, i, k, cap, 1)
          [] a.k = "rep" ->
                LET all == RunLen(a.cls, s, i)
                    run == IF a.capped THEN Min(all, a.max) ELSE all
                    first == Match(p, s, i + (IF a.greedy THEN run ELSE a.min), k + 1, cap)
                    rest == {<<n, Match(p, s, i + n, k + 1, cap)>> : n \in a.min..run}
                    ns == {r[1] : r \in {q \in rest : q[2].ok}}
                    best == IF a.greedy THEN SetMax(ns) ELSE SetMin(ns)
                IN  IF run < a.min THEN NoMatch
                    ELSE IF first.ok THEN first
                    ELSE IF ns = {} THEN NoMatch
                    ELSE (CHOOSE r \in rest : r[1] = best)[2]

TryAlt(p, s, i, k, cap, j) ==
    IF j > Len(p[k].ws) THEN NoMatch
    ELSE LET m == IF LitAt(p[k].ws[j], s, i)
                  THEN Match(p, s, i + Len(p[k].ws[j]), k + 1, cap) ELSE NoMatch
         IN  IF m.ok THEN m ELSE TryAlt(p, s, i, k, cap, j + 1)

\* String.prototype.matchAll with a g pattern: group 1 of every match, the
\* search for the next match starting where the last one ended
RECURSIVE matchAll(_, _, _)
matchAll(p, s, i) ==
    LET found == {<<j, Match(p, s, j, 1, 0)>> :
                     j \in {h \in i..Len(s) : p[1].k = "lit" => Lower(s[h]) = p[1].c}}
        starts == {r[1] : r \in {q \in found : q[2].ok}}
        at == SetMin(starts)
        m == (CHOOSE r \in found : r[1] = at)[2]
    IN  IF starts = {} THEN <<>>
        ELSE <<SubSeq(s, m.from, m.to - 1)>>
                \o matchAll(p, s, IF m.to > at THEN m.to ELSE at + 1)

(***************************************************************************)
(* cleanExtractedText                                                      *)
(***************************************************************************)
Punctuation == {",", ".", ";", ":", "!", "?", "(", ")", "[", "]", "{", "}"}

MaxWords == 8

\* the punctuation left in
stripNothing(s) == s

\* .replace(/[,.;:!?()[\]{}]/g, '')
stripPunctuation(s) == SelectSeq(s, LAMBDA c : c \notin Punctuation)

\* .replace(/\s+/g, ' '): a space for every run of whitespace
collapseWhitespace(s) ==
    LET marked == [i \in 1..Len(s) |->
                      IF ~IsSpace(s[i]) THEN s[i]
                      ELSE IF i > 1 /\ IsSpace(s[i - 1]) THEN "" ELSE " "]
    IN  SelectSeq(marked, LAMBDA c : c # "")

\* the trim left out
trimNothing(s) == s

\* .trim()
trim(s) ==
    LET keep == {i \in 1..Len(s) : ~IsSpace(s[i])}
    IN  IF keep = {} THEN <<>> ELSE SubSeq(s, SetMin(keep), SetMax(keep))

\* .split(' '): the pieces between single spaces, the empty string giving [""]
RECURSIVE split(_)
split(s) ==
    LET at == {i \in 1..Len(s) : s[i] = " "}
    IN  IF at = {} THEN <<s>>
        ELSE <<SubSeq(s, 1, SetMin(at) - 1)>> \o split(SubSeq(s, SetMin(at) + 1, Len(s)))

\* .slice(0, n)
slice(xs, n) == SubSeq(xs, 1, Min(n, Len(xs)))

\* .join(sep)
RECURSIVE join(_, _)
join(xs, sep) ==
    IF xs = <<>> THEN <<>>
    ELSE IF Len(xs) = 1 THEN xs[1]
    ELSE xs[1] \o sep \o join(Tail(xs), sep)

cleanExtractedText(text) ==
    join(slice(split(trim(collapseWhitespace(stripPunctuation(text)))), MaxWords), <<" ">>)

(***************************************************************************)
(* The extractors                                                          *)
(***************************************************************************)
\* JavaScript truthiness of a string | undefined: set and not ''
Truthy(o) == IsSet(o) /\ Len(o[1]) > 0

\* Array.prototype.includes
Contains(xs, x) == \E i \in 1..Len(xs) : xs[i] = x

liquidityPatterns == <<
    Lit(<<"l","i","q","u","i","d","i","t","y">>) \o Ws1 \o Lit(<<"p","r","o","v","i","d","e","r">>) \o Rep("[s]", 0, 1, TRUE) \o Capture1,
    Lit(<<"l","i","q","u","i","d","i","t","y">>) \o Ws1 \o Facility \o Capture1,
    Lit(<<"b","a","c","k","u","p">>) \o Ws1 \o Lit(<<"l","i","q","u","i","d","i","t","y">>) \o Capture1,
    Lit(<<"c","o","m","m","i","t","t","e","d">>) \o Ws1 \o Lit(<<"l","i","q","u","i","d","i","t","y">>) \o Capture1,
    Lit(<<"s","t","a","n","d","b","y">>) \o Ws1 \o Lit(<<"l","i","q","u","i","d","i","t","y">>) \o Capture1 >>

adminPatterns == <<
    Lit(<<"a","d","m","i","n","i","s","t","r","a","t","o","r">>) \o Capture1,
    Lit(<<"p","r","o","g","r","a","m">>) \o Ws1 \o Lit(<<"a","d","m","i","n","i","s","t","r","a","t","o","r">>) \o Capture1,
    Lit(<<"a","d","m","i","n","i","s","t","r","a","t","i","v","e">>) \o Ws1 \o Lit(<<"a","g","e","n","t">>) \o Capture1 >>

sponsorPatterns == <<
    Lit(<<"s","p","o","n","s","o","r">>) \o Capture1,
    Lit(<<"p","r","o","g","r","a","m">>) \o Ws1 \o Lit(<<"s","p","o","n","s","o","r">>) \o Capture1,
    Lit(<<"s","p","o","n","s","o","r","e","d">>) \o Ws1 \o Lit(<<"b","y">>) \o Capture1 >>

ProviderIncrement == 3
RoleIncrement == 2
IssuerBonus == 3

\* the locals of an extractor as it starts
NoInfo == [liquidityProviders |-> <<>>, administrator |-> Undefined,
           sponsor |-> Undefined, confidence |-> 0]

\* a provider appended without looking for it in the list
addProviderUnchecked(st, m) ==
    LET provider == cleanExtractedText(m)
    IN  IF Len(m) > 0 /\ Len(provider) > 0
        THEN [st EXCEPT !.liquidityProviders = Append(@, provider),
                        !.confidence = @ + ProviderIncrement]
        ELSE st

\* one provider match: the body of the for loop over the matches of a pattern
addProvider(st, m) ==
    LET provider == cleanExtractedText(m)
    IN  IF Len(m) > 0 /\ Len(provider) > 0 /\ ~Contains(st.liquidityProviders, provider)
        THEN [st EXCEPT !.liquidityProviders = Append(@, provider),
                        !.confidence = @ + ProviderIncrement]
        ELSE st

RECURSIVE addProviders(_, _)
addProviders(st, ms) ==
    IF ms = <<>> THEN st ELSE addProviders(addProvider(st, Head(ms)), Tail(ms))

\* liquidityPatterns.forEach(...)
RECURSIVE liquidityPass(_, _, _)
liquidityPass(st, patterns, text) ==
    IF patterns = <<>> THEN st
    ELSE liquidityPass(addProviders(st, matchAll(Head(patterns), text, 1)),
                       Tail(patterns), text)

\* the matches of one administrator pattern: the first one seen while the
\* administrator is falsy is taken, and the loop is left
RECURSIVE setAdministrator(_, _)
setAdministrator(st, ms) ==
    IF ms = <<>> THEN st
    ELSE IF Len(Head(ms)) > 0 /\ ~Truthy(st.administrator)
         THEN [st EXCEPT !.administrator = Some(cleanExtractedText(Head(ms))),
                         !.confidence = @ + RoleIncrement]
         ELSE setAdministrator(st, Tail(ms))

\* adminPatterns.forEach(...)
RECURSIVE adminPass(_, _, _)
adminPass(st, patterns, text) ==
    IF patterns = <<>> THEN st
    ELSE adminPass(setAdministrator(st, matchAll(Head(patterns), text, 1)),
                   Tail(patterns), text)

RECURSIVE setSponsor(_, _)
setSponsor(st, ms) ==
    IF ms = <<>> THEN st
    ELSE IF Len(Head(ms)) > 0 /\ ~Truthy(st.sponsor)
         THEN [st EXCEPT !.sponsor = Some(cleanExtractedText(Head(ms))),
                         !.confidence = @ + RoleIncrement]
         ELSE setSponsor(st, Tail(ms))

\* sponsorPatterns.forEach(...)
RECURSIVE sponsorPass(_, _, _)
sponsorPass(st, patterns, text) ==
    IF patterns = <<>> THEN st
    ELSE sponsorPass(setSponsor(st, matchAll(Head(patterns), text, 1)),
                     Tail(patterns), text)

\* no gate at all, as in the document-analysis variant
isRelevantAlways(text, issuerLower) == TRUE

\* the relevance gate
isRelevant(text, issuerLower) ==
    \/ includes(text, issuerLower)
    \/ includes(text, <<"a","b","c","p">>)
    \/ includes(text, <<"c","o","m","m","e","r","c","i","a","l"," ","p","a","p","e","r">>)

\* the bonus added whether or not the issuer is mentioned
issuerBonusAlways(st, text, issuerLower) == [st EXCEPT !.confidence = @ + IssuerBonus]

\* if (text.includes(issuerLower)) confidence += 0.3
issuerBonus(st, text, issuerLower) ==
    IF includes(text, issuerLower)
    THEN [st EXCEPT !.confidence = @ + IssuerBonus] ELSE st

\* the final gate left out
nothingFoundNever(st) == FALSE

\* nothing identified: the extractor returns null
nothingFound(st) ==
    Len(st.liquidityProviders) = 0 /\ ~Truthy(st.administrator) /\ ~Truthy(st.sponsor)

\* the clamp left out
clampNone(confidence) == confidence

\* Math.min(confidence, 1.0)
clamp(confidence) == Min(confidence, 10)

\* the element of a one-element set
The(S) == CHOOSE x \in S : TRUE

\* the record the web-search extractor returns for its locals, or null
webRecord(st, issuer) ==
    IF nothingFound(st) THEN Undefined
    ELSE Some([issuer |-> issuer,
               liquidityProviders |-> st.liquidityProviders,
               administrator |-> st.administrator,
               sponsor |-> st.sponsor,
               confidence |-> clamp(st.confidence),
               source |-> <<>>])

\* the gate, then the three passes and the bonus, each on the locals the
\* one before it left
extractABCPInfoFromText(text0, issuer) ==
    IF ~isRelevant(toLowerCase(text0), toLowerCase(issuer)) THEN Undefined
    ELSE The({webRecord(st4, issuer) :
            st4 \in {issuerBonus(st3, toLowerCase(text0), toLowerCase(issuer)) :
              st3 \in {sponsorPass(st2, sponsorPatterns, text0) :
                st2 \in {adminPass(st1, adminPatterns, text0) :
                  st1 \in {liquidityPass(NoInfo, liquidityPatterns, text0)}}}}})

\* the document-analysis variant's patterns
pdfLiquidityPatterns == <<
    Lit(<<"l","i","q","u","i","d","i","t","y">>) \o Ws1 \o Facility \o Capture1,
    Lit(<<"r","e","v","o","l","v","i","n","g">>) \o Ws1 \o Lit(<<"c","r","e","d","i","t">>) \o Ws1 \o Facility \o Capture1,
    Lit(<<"b","a","c","k","u","p">>) \o Ws1 \o Lit(<<"l","i","q","u","i","d","i","t","y">>) \o Capture1,
    Lit(<<"l","i","q","u","i","d","i","t","y">>) \o Ws1 \o Lit(<<"s","u","p","p","o","r","t">>) \o Capture1,
    Lit(<<"s","t","a","n","d","b","y">>) \o Ws1 \o Lit(<<"l","i","q","u","i","d","i","t","y">>) \o Capture1,
    Lit(<<"c","r","e","d","i","t">>) \o Ws1 \o Facility \o Capture1,
    \* \$[\d,]+\s+[^\n]*facility[^\n]*?([A-Z][^.\n]*(?:Bank|N\.A\.|LLC|Corp|Inc))
    Lit(<<"$">>) \o RepFrom("[\\d,]", 1, TRUE) \o Ws1
        \o RepFrom("[^\\n]", 0, TRUE) \o Lit(<<"f","a","c","i","l","i","t","y">>)
        \o RepFrom("[^\\n]", 0, FALSE) \o Cap \o Rep("[A-Z]", 1, 1, TRUE)
        \o RepFrom("[^.\\n]", 0, TRUE)
        \o Alt(<<<<"B","a","n","k">>, <<"N",".","A",".">>, <<"L","L","C">>, <<"C","o","r","p">>, <<"I","n","c">>>>) >>

pdfAdminPatterns == <<
    Lit(<<"p","r","o","g","r","a","m">>) \o Ws1 \o Lit(<<"a","d","m","i","n","i","s","t","r","a","t","o","r">>) \o Capture1,
    Lit(<<"a","d","m","i","n","i","s","t","r","a","t","o","r">>) \o Capture1,
    Lit(<<"a","d","m","i","n","i","s","t","r","a","t","i","v","e">>) \o Ws1 \o Lit(<<"a","g","e","n","t">>) \o Capture1,
    Lit(<<"t","r","u","s","t","e","e">>) \o Capture1 >>

pdfSponsorPatterns == <<
    Lit(<<"p","r","o","g","r","a","m">>) \o Ws1 \o Lit(<<"s","p","o","n","s","o","r">>) \o Capture1,
    Lit(<<"s","p","o","n","s","o","r">>) \o Capture1,
    Lit(<<"s","p","o","n","s","o","r","e","d">>) \o Ws1 \o Lit(<<"b","y">>) \o Capture1,
    Lit(<<"o","r","i","g","i","n","a","t","o","r">>) \o Capture1 >>

PdfBonus == 4

\* the bonus added to every document
pdfBonusAlways(st, text) == [st EXCEPT !.confidence = @ + PdfBonus]

\* if (text.includes('commercial paper') || text.includes('abcp')) confidence += 0.4
pdfBonus(st, text) ==
    IF includes(text, <<"c","o","m","m","e","r","c","i","a","l"," ","p","a","p","e","r">>) \/ includes(text, <<"a","b","c","p">>)
    THEN [st EXCEPT !.confidence = @ + PdfBonus] ELSE st

\* String.prototype.replace(t, ''): the first occurrence of t removed
removeFirst(s, t) ==
    LET at == {i \in 0..(Len(s) - Len(t)) : \A j \in 1..Len(t) : s[i + j] = t[j]}
    IN  IF at = {} THEN s
        ELSE SubSeq(s, 1, SetMin(at)) \o SubSeq(s, SetMin(at) + Len(t) + 1, Len(s))

\* the record the document extractor returns for its locals, or null
pdfRecord(st, file) ==
    IF nothingFound(st) THEN Undefined
    ELSE Some([issuer |-> removeFirst(file, <<".","p","d","f">>),
               liquidityProviders |-> st.liquidityProviders,
               administrator |-> st.administrator,
               sponsor |-> st.sponsor,
               confidence |-> clamp(st.confidence)])

\* no relevance gate: the three passes and the bonus
extractABCPFromPDF(text0, file) ==
    The({pdfRecord(st4, file) :
      st4 \in {pdfBonus(st3, toLowerCase(text0)) :
        st3 \in {sponsorPass(st2, pdfSponsorPatterns, text0) :
          st2 \in {adminPass(st1, pdfAdminPatterns, text0) :
            st1 \in {liquidityPass(NoInfo, pdfLiquidityPatterns, text0)}}}}})

(***************************************************************************)
(* removeDuplicates                                                        *)
(***************************************************************************)
\* x || ''
orEmpty(o) == IF Truthy(o) THEN o[1] ELSE <<>>

\* `${issuer}-${liquidityProviders.join(',')}-${administrator || ''}-${sponsor || ''}`
key(result) ==
    result.issuer \o <<"-">> \o join(result.liquidityProviders, <<",">>) \o <<"-">>
        \o orEmpty(result.administrator) \o <<"-">> \o orEmpty(result.sponsor)

\* results.filter(...): a record is kept when its key was not seen before
RECURSIVE filterSeen(_, _)
filterSeen(rs, seen) ==
    IF rs = <<>> THEN <<>>
    ELSE IF key(Head(rs)) \in seen THEN filterSeen(Tail(rs), seen)
    ELSE <<Head(rs)>> \o filterSeen(Tail(rs), seen \cup {key(Head(rs))})

removeDuplicates(rs) == filterSeen(rs, {})

\* results.push({ ...extractedData, source: item.url || item.link || 'Web Search' })
withSource(data, url) == [data EXCEPT !.source = url]

(***************************************************************************)
(* The inputs: text blocks put together from clauses, the contents of the  *)
(* program's own mock search results, and the scenario of the spec.        *)
(***************************************************************************)
MaxClauses == 3

Clauses == <<
    <<"L","i","q","u","i","d","i","t","y"," ","P","r","o","v","i","d","e","r",":"," ","A","b",".",
      " ">>,
    <<"l","i","q","u","i","d","i","t","y"," ","p","r","o","v","i","d","e","r","s",":"," ","C","d",
      " ">>,
    <<"l","i","q","u","i","d","i","t","y"," ","f","a","c","i","l","i","t","i","e","s",":"," ","A",
      "b","."," ">>,
    <<"b","a","c","k","u","p"," ","l","i","q","u","i","d","i","t","y"," ","f","a","c","i","l","i",
      "t","y",":"," ","C","d","."," ">>,
    <<"P","r","o","g","r","a","m"," ","A","d","m","i","n","i","s","t","r","a","t","o","r",":"," ",
      "E","f",","," ","N",".","A","."," ">>,
    <<"s","p","o","n","s","o","r",":"," ",","," ","."," ">>,
    <<"S","p","o","n","s","o","r",":"," ","A","b","."," ">>,
    <<"c","o","m","m","e","r","c","i","a","l"," ","p","a","p","e","r","."," ">>,
    <<"$","5"," ","A","B","C","P"," ","f","a","c","i","l","i","t","y"," ","C","d",","," ","N",".",
      "A",".","\n">> >>

RECURSIVE concat(_)
concat(xs) == IF xs = <<>> THEN <<>> ELSE Head(xs) \o concat(Tail(xs))

TextsOf(n) == {concat([i \in 1..n |-> Clauses[f[i]]]) : f \in [1..n -> 1..Len(Clauses)]}

Texts == UNION {TextsOf(n) : n \in 0..MaxClauses}

IssuerNames == {<<"A","B">>, <<"Z","q"," ","F","u","n","d","i","n","g">>}
FileNames == {<<"Z","q",".","p","d","f">>, <<"A","b",".","p","d","f">>}

\* performMockSearch: the content of its three results
MockContent1 ==
    <<"L","i","q","u","i","d","i","t","y"," ","P","r","o","v","i","d","e","r",":"," ","J","P","M",
      "o","r","g","a","n"," ","C","h","a","s","e"," ","B","a","n","k",","," ","N",".","A","."," ",
      "A","d","m","i","n","i","s","t","r","a","t","o","r",":"," ","W","e","l","l","s"," ","F","a",
      "r","g","o"," ","B","a","n","k",","," ","N",".","A","."," ","S","p","o","n","s","o","r",":",
      " ","E","x","a","m","p","l","e"," ","C","a","p","i","t","a","l"," ","L","L","C","."," ","T",
      "h","i","s"," ","A","s","s","e","t"," ","B","a","c","k","e","d"," ","C","o","m","m","e","r",
      "c","i","a","l"," ","P","a","p","e","r"," ","p","r","o","g","r","a","m"," ","p","r","o","v",
      "i","d","e","s"," ","s","h","o","r","t","-","t","e","r","m"," ","f","u","n","d","i","n","g",
      " ","t","h","r","o","u","g","h"," ","t","h","e"," ","i","s","s","u","a","n","c","e"," ","o",
      "f"," ","c","o","m","m","e","r","c","i","a","l"," ","p","a","p","e","r"," ","b","a","c","k",
      "e","d"," ","b","y"," ","v","a","r","i","o","u","s"," ","a","s","s","e","t"," ","p","o","o",
      "l","s",".">>
MockContent2 ==
    <<"B","a","c","k","u","p"," ","l","i","q","u","i","d","i","t","y",":"," ","B","a","n","k"," ",
      "o","f"," ","A","m","e","r","i","c","a",","," ","N",".","A","."," ","C","o","m","m","i","t",
      "t","e","d"," ","l","i","q","u","i","d","i","t","y"," ","f","a","c","i","l","i","t","y",":",
      " ","C","i","t","i","b","a","n","k",","," ","N",".","A","."," ","P","r","o","g","r","a","m",
      " ","a","d","m","i","n","i","s","t","r","a","t","o","r",":"," ","T","h","e"," ","B","a","n",
      "k"," ","o","f"," ","N","e","w"," ","Y","o","r","k"," ","M","e","l","l","o","n","."," ","T",
      "h","e"," ","p","r","o","g","r","a","m"," ","s","p","o","n","s","o","r"," ","m","a","i","n",
      "t","a","i","n","s"," ","c","r","e","d","i","t"," ","e","n","h","a","n","c","e","m","e","n",
      "t"," ","t","h","r","o","u","g","h"," ","v","a","r","i","o","u","s"," ","m","e","c","h","a",
      "n","i","s","m","s","."," ","R","a","t","i","n","g",":"," ","A","-","1","+"," ","b","y"," ",
      "S","t","a","n","d","a","r","d"," ","&"," ","P","o","o","r","'","s",".">>
MockContent3 ==
    <<"R","e","c","e","n","t"," ","A","B","C","P"," ","i","s","s","u","a","n","c","e","s"," ","s",
      "h","o","w"," ","s","t","r","o","n","g"," ","l","i","q","u","i","d","i","t","y"," ","s","u",
      "p","p","o","r","t"," ","f","r","o","m"," ","m","a","j","o","r"," ","b","a","n","k","s"," ",
      "i","n","c","l","u","d","i","n","g"," ","W","e","l","l","s"," ","F","a","r","g","o"," ","B",
      "a","n","k",","," ","N",".","A",".",","," ","D","e","u","t","s","c","h","e"," ","B","a","n",
      "k"," ","A","G",","," ","a","n","d"," ","R","o","y","a","l"," ","B","a","n","k"," ","o","f",
      " ","C","a","n","a","d","a","."," ","P","r","o","g","r","a","m"," ","a","d","m","i","n","i",
      "s","t","r","a","t","o","r","s"," ","t","y","p","i","c","a","l","l","y"," ","i","n","c","l",
      "u","d","e"," ","m","a","j","o","r"," ","t","r","u","s","t"," ","b","a","n","k","s"," ","w",
      "i","t","h"," ","e","x","t","e","n","s","i","v","e"," ","c","o","m","m","e","r","c","i","a",
      "l"," ","p","a","p","e","r"," ","e","x","p","e","r","i","e","n","c","e",".">>
MockContents == {MockContent1, MockContent2, MockContent3}

\* simulatePDFAnalysis: the text it passes to extractABCPFromPDF
PdfMockContent ==
    <<"\n"," "," "," "," ","A","S","S","E","T"," ","B","A","C","K","E","D"," ","C","O","M","M","E",
      "R","C","I","A","L"," ","P","A","P","E","R"," ","P","R","O","G","R","A","M","\n"," "," "," ",
      " ","\n"," "," "," "," ","P","r","o","g","r","a","m"," ","A","d","m","i","n","i","s","t","r",
      "a","t","o","r",":"," ","T","h","e"," ","B","a","n","k"," ","o","f"," ","N","e","w"," ","Y",
      "o","r","k"," ","M","e","l","l","o","n","\n"," "," "," "," ","P","r","o","g","r","a","m"," ",
      "S","p","o","n","s","o","r",":"," ","E","x","a","m","p","l","e"," ","C","a","p","i","t","a",
      "l"," ","M","a","n","a","g","e","m","e","n","t"," ","L","L","C","\n"," "," "," "," ","\n",
      " "," "," "," ","L","I","Q","U","I","D","I","T","Y"," ","F","A","C","I","L","I","T","I","E",
      "S","\n"," "," "," "," ","T","h","e"," ","P","r","o","g","r","a","m"," ","h","a","s"," ","e",
      "n","t","e","r","e","d"," ","i","n","t","o"," ","t","h","e"," ","f","o","l","l","o","w","i",
      "n","g"," ","l","i","q","u","i","d","i","t","y"," ","f","a","c","i","l","i","t","i","e","s",
      ":","\n"," "," "," "," ","-"," ","J","P","M","o","r","g","a","n"," ","C","h","a","s","e"," ",
      "B","a","n","k",","," ","N",".","A","."," ","-"," ","$","5","0","0",",","0","0","0",",","0",
      "0","0"," ","3","6","4","-","d","a","y"," ","r","e","v","o","l","v","i","n","g"," ","c","r",
      "e","d","i","t"," ","f","a","c","i","l","i","t","y","\n"," "," "," "," ","-"," ","B","a","n",
      "k"," ","o","f"," ","A","m","e","r","i","c","a",","," ","N",".","A","."," ","-"," ","$","3",
      "0","0",",","0","0","0",",","0","0","0"," ","l","i","q","u","i","d","i","t","y"," ","s","u",
      "p","p","o","r","t"," ","f","a","c","i","l","i","t","y","\n"," "," "," "," ","-"," ","W","e",
      "l","l","s"," ","F","a","r","g","o"," ","B","a","n","k",","," ","N",".","A","."," ","-"," ",
      "$","2","0","0",",","0","0","0",",","0","0","0"," ","b","a","c","k","u","p"," ","l","i","q",
      "u","i","d","i","t","y"," ","f","a","c","i","l","i","t","y","\n"," "," "," "," ","\n"," ",
      " "," "," ","C","R","E","D","I","T"," ","E","N","H","A","N","C","E","M","E","N","T","\n"," ",
      " "," "," ","C","i","t","i","b","a","n","k",","," ","N",".","A","."," ","p","r","o","v","i",
      "d","e","s"," ","c","r","e","d","i","t"," ","e","n","h","a","n","c","e","m","e","n","t"," ",
      "t","h","r","o","u","g","h"," ","a"," ","s","t","a","n","d","b","y"," ","l","e","t","t","e",
      "r"," ","o","f"," ","c","r","e","d","i","t",".","\n"," "," "," "," ","\n"," "," "," "," ",
      "R","A","T","I","N","G"," ","I","N","F","O","R","M","A","T","I","O","N","\n"," "," "," "," ",
      "T","h","e"," ","c","o","m","m","e","r","c","i","a","l"," ","p","a","p","e","r"," ","n","o",
      "t","e","s"," ","a","r","e"," ","r","a","t","e","d"," ","A","-","1","+"," ","b","y"," ","S",
      "t","a","n","d","a","r","d"," ","&"," ","P","o","o","r","'","s"," ","a","n","d"," ","P","-",
      "1"," ","b","y"," ","M","o","o","d","y","'","s",".","\n"," "," ">>

\* the scenario: the two sentences, and "commercial paper" elsewhere
ScenarioText ==
    <<"L","i","q","u","i","d","i","t","y"," ","P","r","o","v","i","d","e","r",":"," ","J","P","M",
      "o","r","g","a","n"," ","C","h","a","s","e"," ","B","a","n","k",","," ","N",".","A","."," ",
      "A","d","m","i","n","i","s","t","r","a","t","o","r",":"," ","W","e","l","l","s"," ","F","a",
      "r","g","o"," ","B","a","n","k",","," ","N",".","A","."," ","c","o","m","m","e","r","c","i",
      "a","l"," ","p","a","p","e","r">>
ScenarioIssuer == <<"E","x","a","m","p","l","e"," ","C","a","p","i","t","a","l"," ","L","L","C">>

InitExtract ==
    /\ pc = "start"
    /\ \/ content \in Texts /\ issuerName \in IssuerNames /\ fileName = <<>>
       \/ content \in MockContents \cup {ScenarioText}
            /\ issuerName = ScenarioIssuer /\ fileName = <<>>
       \/ content \in Texts \cup {PdfMockContent}
            /\ issuerName = <<>> /\ fileName \in FileNames
    /\ extractedData = Undefined
    /\ captured = <<>> /\ cleanedText = <<>>
    /\ results = <<>> /\ uniqueResults = <<>>
    /\ NoSearch

\* WebSearchService.extractABCPInfoFromText(content, issuerName)
ExtractFromText ==
    /\ pc = "start"
    /\ fileName = <<>>
    /\ extractedData' = extractABCPInfoFromText(content, issuerName)
    /\ pc' = "extracted"
    /\ UNCHANGED <<content, issuerName, fileName, cleanVars, dedupVars, searchVars, historyVars>>
    /\ UNCHANGED sideVars

\* extractABCPFromPDF(content, fileName)
ExtractFromPDF ==
    /\ pc = "start"
    /\ fileName # <<>>
    /\ extractedData' = extractABCPFromPDF(content, fileName)
    /\ pc' = "analyzed"
    /\ UNCHANGED <<content, issuerName, fileName, cleanVars, dedupVars, searchVars, historyVars>>
    /\ UNCHANGED sideVars

NextExtract == ExtractFromText \/ ExtractFromPDF

SpecExtract == InitExtract /\ [][NextExtract]_vars

(***************************************************************************)
(* Properties of the extractors                                            *)
(***************************************************************************)
Returned == IsSet(extractedData)
Record == extractedData[1]
LowerContent == toLowerCase(content)
MentionsIssuer == includes(LowerContent, toLowerCase(issuerName))
Bit(b) == IF b THEN 1 ELSE 0

\* group 1 of every match of every pattern of a list, in the order the
\* passes meet them
RECURSIVE AllCaptures(_, _)
AllCaptures(patterns, text) ==
    IF patterns = <<>> THEN <<>>
    ELSE matchAll(Head(patterns), text, 1) \o AllCaptures(Tail(patterns), text)

Cleaned(ms) == [i \in 1..Len(ms) |-> cleanExtractedText(ms[i])]
NonEmpty(xs) == SelectSeq(xs, LAMBDA x : Len(x) > 0)

LiquidityPatternsHere == IF pc = "analyzed" THEN pdfLiquidityPatterns ELSE liquidityPatterns
AdminPatternsHere == IF pc = "analyzed" THEN pdfAdminPatterns ELSE adminPatterns
SponsorPatternsHere == IF pc = "analyzed" THEN pdfSponsorPatterns ELSE sponsorPatterns

\* C1: a text that mentions neither the issuer, nor "abcp", nor "commercial
\* paper" gives null, whatever role keywords it holds.
C1_RelevanceGate ==
    (/\ pc = "extracted"
     /\ ~MentionsIssuer
     /\ ~includes(LowerContent, <<"a","b","c","p">>)
     /\ ~includes(LowerContent, <<"c","o","m","m","e","r","c","i","a","l"," ","p","a","p","e","r">>))
    => extractedData = Undefined

\* an unrelated text in which a liquidity pattern matches
C1_Witness ==
    /\ pc = "extracted"
    /\ ~MentionsIssuer
    /\ ~includes(LowerContent, <<"a","b","c","p">>)
    /\ ~includes(LowerContent, <<"c","o","m","m","e","r","c","i","a","l"," ","p","a","p","e","r">>)
    /\ Len(NonEmpty(Cleaned(AllCaptures(liquidityPatterns, content)))) > 0
    /\ extractedData = Undefined

\* C2: the confidence of every record either extractor returns is within
\* [0.0, 1.0] (0..10 tenths).
C2_ConfidenceInRange ==
    (pc \in {"extracted", "analyzed"} /\ Returned)
    => (Record.confidence >= 0 /\ Record.confidence <= 10)

\* a record whose increments add up to more than 1.0
C2_Witness ==
    /\ pc = "extracted"
    /\ Returned
    /\ 3 * Len(Record.liquidityProviders) + 2 * Bit(IsSet(Record.administrator))
         + 2 * Bit(IsSet(Record.sponsor)) + 3 * Bit(MentionsIssuer) > 10
    /\ Record.confidence = 10

\* C3: no record is returned with no provider, no administrator and no
\* sponsor: null is returned instead.
C3_NeverEmptyRecord ==
    (pc \in {"extracted", "analyzed"} /\ Returned)
    => ~(/\ Len(Record.liquidityProviders) = 0
         /\ ~IsSet(Record.administrator)
         /\ ~IsSet(Record.sponsor))

\* a text that passes the relevance gate and in which no pattern matches
C3_Witness ==
    /\ pc = "extracted"
    /\ isRelevant(LowerContent, toLowerCase(issuerName))
    /\ AllCaptures(liquidityPatterns \o adminPatterns \o sponsorPatterns, content) = <<>>
    /\ extractedData = Undefined

AtScenario == pc = "extracted" /\ content = ScenarioText /\ issuerName = ScenarioIssuer

\* C5 as stated: the scenario gives the provider "JPMorgan Chase Bank N A",
\* the administrator "Wells Fargo Bank N A" and no sponsor.
C5_ScenarioAsStated ==
    AtScenario
    => /\ Returned
       /\ Contains(Record.liquidityProviders, <<"J","P","M","o","r","g","a","n"," ","C","h","a","s","e"," ","B","a","n","k"," ","N"," ","A">>)
       /\ Record.administrator = Some(<<"W","e","l","l","s"," ","F","a","r","g","o"," ","B","a","n","k"," ","N"," ","A">>)
       /\ Record.sponsor = Undefined

\* C5: the scenario gives the provider "JPMorgan Chase Bank N", the
\* administrator "Wells Fargo Bank N" (a capture ends at the first full
\* stop) and no sponsor.
C5_Scenario ==
    AtScenario
    => /\ Returned
       /\ Contains(Record.liquidityProviders, <<"J","P","M","o","r","g","a","n"," ","C","h","a","s","e"," ","B","a","n","k"," ","N">>)
       /\ Record.administrator = Some(<<"W","e","l","l","s"," ","F","a","r","g","o"," ","B","a","n","k"," ","N">>)
       /\ Record.sponsor = Undefined

C5_Witness == AtScenario /\ Returned

\* every capture of every pattern cleans to a non-empty string
AllCapturesClean ==
    LET ms == AllCaptures(LiquidityPatternsHere \o AdminPatternsHere \o SponsorPatternsHere,
                          content)
    IN  \A i \in 1..Len(ms) : Len(cleanExtractedText(ms[i])) > 0

\* C6: when every capture cleans to a non-empty string, the confidence is
\* min(1.0, 0.3 per listed provider + 0.2 for an administrator + 0.2 for a
\* sponsor + 0.3 for a mention of the issuer).
C6_ConfidenceArithmetic ==
    (pc = "extracted" /\ Returned /\ AllCapturesClean)
    => Record.confidence =
          Min(10, 3 * Len(Record.liquidityProviders) + 2 * Bit(IsSet(Record.administrator))
                    + 2 * Bit(IsSet(Record.sponsor)) + 3 * Bit(MentionsIssuer))

\* a provider matched twice and an administrator matched by two patterns,
\* below the clamp
C6_Witness ==
    /\ pc = "extracted"
    /\ Returned
    /\ AllCapturesClean
    /\ Record.confidence < 10
    /\ Len(AllCaptures(liquidityPatterns, content)) > Len(Record.liquidityProviders)
    /\ Len(AllCaptures(adminPatterns, content)) > 1

\* C7 (a): no role is set to the empty string
C7_NoEmptyRole ==
    (pc \in {"extracted", "analyzed"} /\ Returned)
    => (Record.administrator # Some(<<>>) /\ Record.sponsor # Some(<<>>))

\* C7 (b): an empty capture adds nothing to the confidence
C7_NoEmptyIncrement ==
    (pc = "extracted" /\ Returned)
    => Record.confidence =
          Min(10, 3 * Len(Record.liquidityProviders) + 2 * Bit(Truthy(Record.administrator))
                    + 2 * Bit(Truthy(Record.sponsor)) + 3 * Bit(MentionsIssuer))

\* C7 (c): a non-empty match for a role is accepted whatever empty ones
\* came before it
C7_LaterMatchAccepted ==
    (pc \in {"extracted", "analyzed"} /\ Returned)
    => /\ NonEmpty(Cleaned(AllCaptures(AdminPatternsHere, content))) # <<>>
            => Truthy(Record.administrator)
       /\ NonEmpty(Cleaned(AllCaptures(SponsorPatternsHere, content))) # <<>>
            => Truthy(Record.sponsor)

\* C7: a capture that cleans to the empty string is no match in any pass.
C7_EmptyCaptureIsNoMatch ==
    C7_NoEmptyRole /\ C7_NoEmptyIncrement /\ C7_LaterMatchAccepted

\* C8: a relevant text with "liquidity facilities: X" has the cleaned X
\* among its liquidity providers.
C8_PluralRecognised ==
    (/\ pc \in {"extracted", "analyzed"}
     /\ includes(content, <<"l","i","q","u","i","d","i","t","y"," ","f","a","c","i","l","i","t","i","e","s",":"," ","A",
        "b","."," ">>)
     /\ pc = "extracted" => isRelevant(LowerContent, toLowerCase(issuerName)))
    => (Returned /\ Contains(Record.liquidityProviders, <<"A","b">>))

FirstIndex(xs, x) == SetMin({i \in 1..Len(xs) : xs[i] = x})

\* C9: the provider list holds no string twice, and holds the cleaned
\* non-empty captures in the order they were first matched.
C9_ProvidersUniqueInOrder ==
    (pc \in {"extracted", "analyzed"} /\ Returned)
    => LET lps == Record.liquidityProviders
           caps == NonEmpty(Cleaned(AllCaptures(LiquidityPatternsHere, content)))
       IN  /\ \A i, j \in 1..Len(lps) : i # j => lps[i] # lps[j]
           /\ {lps[i] : i \in 1..Len(lps)} = {caps[i] : i \in 1..Len(caps)}
           /\ \A i, j \in 1..Len(lps) :
                 i < j => FirstIndex(caps, lps[i]) < FirstIndex(caps, lps[j])

\* two providers listed, one of them matched more than once
C9_Witness ==
    /\ pc = "extracted"
    /\ Returned
    /\ Len(Record.liquidityProviders) >= 2
    /\ Len(NonEmpty(Cleaned(AllCaptures(liquidityPatterns, content))))
          > Len(Record.liquidityProviders)

\* the locals of extractABCPFromPDF after its three passes
PdfLocals ==
    sponsorPass(adminPass(liquidityPass(NoInfo, pdfLiquidityPatterns, content),
                          pdfAdminPatterns, content),
                pdfSponsorPatterns, content)

HasKeyword ==
    includes(LowerContent, <<"c","o","m","m","e","r","c","i","a","l"," ","p","a","p","e","r">>) \/ includes(LowerContent, <<"a","b","c","p">>)

\* the issuer of a document is its file name without ".pdf"
MentionsFileIssuer == includes(LowerContent, toLowerCase(removeFirst(fileName, <<".","p","d","f">>)))

C21_PdfRelevanceGate ==
    (pc = "analyzed" /\ ~MentionsFileIssuer /\ ~HasKeyword)
    => extractedData = Undefined

(***************************************************************************)
(* cleanExtractedText on its own: captures of up to MaxInputWords words,   *)
(* each ending in a punctuation character, between two paddings.           *)
(***************************************************************************)
MaxInputWords == 10
MaxPad == 2

PadChars == {" ", "\t", ",", "x"}
Pads == UNION {[1..n -> PadChars] : n \in 0..MaxPad}

PunctuationSeq == <<",",".",";",":","!","?","(",")","[","]","{","}">>

\* k words: "w," "w." "w;" ... with a single space between them
RECURSIVE InputWords(_)
InputWords(k) ==
    IF k = 0 THEN <<>>
    ELSE InputWords(k - 1) \o (IF k > 1 THEN <<" ">> ELSE <<>>)
            \o <<"w", PunctuationSeq[((k - 1) % Len(PunctuationSeq)) + 1]>>

InitClean ==
    /\ pc = "start"
    /\ \E before \in Pads, after \in Pads, k \in 0..MaxInputWords :
          captured = before \o InputWords(k) \o after
    /\ cleanedText = <<>>
    /\ content = <<>> /\ issuerName = <<>> /\ fileName = <<>>
    /\ extractedData = Undefined
    /\ results = <<>> /\ uniqueResults = <<>>
    /\ NoSearch

\* cleanExtractedText(captured)
Clean ==
    /\ pc = "start"
    /\ cleanedText' = cleanExtractedText(captured)
    /\ pc' = "cleaned"
    /\ UNCHANGED <<captured, extractVars, dedupVars, searchVars, historyVars>>
    /\ UNCHANGED sideVars

NextClean == Clean

SpecClean == InitClean /\ [][NextClean]_vars

\* C4: a cleaned text has at most 8 space-separated words, no leading,
\* trailing or repeated whitespace, and no punctuation character.
C4_CleanedShape ==
    pc = "cleaned"
    => /\ Cardinality({i \in 1..Len(cleanedText) : cleanedText[i] = " "}) + 1 <= 8
       /\ cleanedText # <<>>
            => ~IsSpace(cleanedText[1]) /\ ~IsSpace(cleanedText[Len(cleanedText)])
       /\ \A i \in 1..(Len(cleanedText) - 1) :
            ~(IsSpace(cleanedText[i]) /\ IsSpace(cleanedText[i + 1]))
       /\ \A i \in 1..Len(cleanedText) :
            cleanedText[i] \notin {",", ".", ";", ":", "!", "?", "(", ")", "[", "]", "{", "}"}

\* a capture of more than 8 words that starts with whitespace, holds
\* punctuation and a tab, and is cut to 8 words
C4_Witness ==
    /\ pc = "cleaned"
    /\ Len(captured) > 0
    /\ IsSpace(captured[1])
    /\ \E i \in 1..Len(captured) : captured[i] = "\t"
    /\ \E i \in 1..Len(captured) : captured[i] = "]"
    /\ Cardinality({i \in 2..Len(captured) :
                        captured[i] = "w" /\ IsSpace(captured[i - 1])}) > 8
    /\ Cardinality({i \in 1..Len(cleanedText) : cleanedText[i] = " "}) = 7

(***************************************************************************)
(* removeDuplicates on the records one search collects: each is what the   *)
(* extractor returns for the content of a search result, with its url.     *)
(***************************************************************************)
MaxResults == 3

ItemContents == {
    <<"l","i","q","u","i","d","i","t","y"," ","p","r","o","v","i","d","e","r",":"," ","x","."," ",
      "a","d","m","i","n","i","s","t","r","a","t","o","r",":"," ","y","-","z","."," ","a","b","c",
      "p">>,
    <<"l","i","q","u","i","d","i","t","y"," ","p","r","o","v","i","d","e","r",":"," ","x","-","y",
      "."," ","a","d","m","i","n","i","s","t","r","a","t","o","r",":"," ","z","."," ","a","b","c",
      "p">>,
    <<"l","i","q","u","i","d","i","t","y"," ","p","r","o","v","i","d","e","r",":"," ","x","."," ",
      "s","p","o","n","s","o","r",":"," ","z","."," ","a","b","c","p">>,
    <<"l","i","q","u","i","d","i","t","y"," ","p","r","o","v","i","d","e","r",":"," ","x","."," ",
      "a","d","m","i","n","i","s","t","r","a","t","o","r",":"," ",",","."," ","s","p","o","n","s",
      "o","r",":"," ","z","."," ","a","b","c","p">>,
    <<"Z","q"," ","F","u","n","d","i","n","g",":"," ","l","i","q","u","i","d","i","t","y"," ","p",
      "r","o","v","i","d","e","r",":"," ","x","."," ","a","d","m","i","n","i","s","t","r","a","t",
      "o","r",":"," ","y","-","z","."," ","a","b","c","p">>,
    <<"Z","q"," ","F","u","n","d","i","n","g",":"," ","l","i","q","u","i","d","i","t","y"," ","p",
      "r","o","v","i","d","e","r",":"," ","w","."," ","s","p","o","n","s","o","r",":"," ","z",".",
      " ","a","b","c","p">> }

ItemUrls == {<<"u","1">>, <<"u","2">>}

SearchedIssuer == <<"Z","q"," ","F","u","n","d","i","n","g">>

\* the records the items of the search results give
Extracted ==
    {withSource(extractABCPInfoFromText(c, SearchedIssuer)[1], u) :
        c \in {d \in ItemContents : IsSet(extractABCPInfoFromText(d, SearchedIssuer))},
        u \in ItemUrls}

InitDedup ==
    /\ pc = "start"
    /\ issuerName = SearchedIssuer
    /\ results \in UNION {[1..n -> Extracted] : n \in 0..MaxResults}
    /\ uniqueResults = <<>>
    /\ content = <<>> /\ fileName = <<>> /\ extractedData = Undefined
    /\ captured = <<>> /\ cleanedText = <<>>
    /\ NoSearch

\* const uniqueResults = this.removeDuplicates(results)
RemoveDuplicates ==
    /\ pc = "start"
    /\ uniqueResults' = removeDuplicates(results)
    /\ pc' = "deduplicated"
    /\ UNCHANGED <<results, extractVars, cleanVars, searchVars, historyVars>>
    /\ UNCHANGED sideVars

NextDedup == RemoveDuplicates

SpecDedup == InitDedup /\ [][NextDedup]_vars

\* identical issuer, provider list, administrator and sponsor
SameEntity(a, b) ==
    /\ a.issuer = b.issuer
    /\ a.liquidityProviders = b.liquidityProviders
    /\ a.administrator = b.administrator
    /\ a.sponsor = b.sponsor

\* C10: of the records with identical issuer, providers, administrator and
\* sponsor exactly one is kept, the first of them, and the kept records are
\* in their input order.
C10_FirstOfGroupKept ==
    pc = "deduplicated"
    => /\ \A i \in 1..Len(results) :
            LET group == {j \in 1..Len(results) : SameEntity(results[j], results[i])}
                kept == {k \in 1..Len(uniqueResults) :
                            SameEntity(uniqueResults[k], results[i])}
            IN  Cardinality(group) >= 2
                    => /\ Cardinality(kept) = 1
                       /\ \A k \in kept : uniqueResults[k] = results[SetMin(group)]
       /\ \E f \in [1..Len(uniqueResults) -> 1..Len(results)] :
            /\ \A k \in 1..Len(uniqueResults) : uniqueResults[k] = results[f[k]]
            /\ \A k, l \in 1..Len(uniqueResults) : k < l => f[k] < f[l]

\* the tuple a record is identified by
Tuple(r) == <<r.issuer, r.liquidityProviders, orEmpty(r.administrator), orEmpty(r.sponsor)>>

\* C11: a record is dropped only if an earlier record has the same (issuer,
\* providers, administrator-or-empty, sponsor-or-empty) tuple: a record whose
\* tuple no earlier record has is kept.
C11_OnlyDuplicatesDropped ==
    pc = "deduplicated"
    => \A i \in 1..Len(results) :
          (\A j \in 1..(i - 1) : Tuple(results[j]) # Tuple(results[i]))
          => \E k \in 1..Len(uniqueResults) : uniqueResults[k] = results[i]

(***************************************************************************)
(* Aggregation: removeDuplicates and the sort by confidence, on the        *)
(* records one search collects.                                            *)
(***************************************************************************)
\* (a, b) => b.confidence - a.confidence
compare(a, b) == b.confidence - a.confidence

\* the records left in the order they have
sortNone(rs) == rs

\* Array.prototype.sort with the comparator above: the order the comparator
\* gives, and the order of the array between records it finds equal
sort(rs) ==
    [k \in 1..Len(rs) |->
        rs[CHOOSE i \in 1..Len(rs) :
              Cardinality({j \in 1..Len(rs) :
                  \/ compare(rs[j], rs[i]) < 0
                  \/ compare(rs[j], rs[i]) = 0 /\ j < i}) = k - 1]]

InitAggregate ==
    /\ pc = "start"
    /\ issuerName = SearchedIssuer
    /\ results \in UNION {[1..n -> Extracted] : n \in 0..MaxResults}
    /\ uniqueResults = <<>>
    /\ content = <<>> /\ fileName = <<>> /\ extractedData = Undefined
    /\ captured = <<>> /\ cleanedText = <<>>
    /\ NoSearch

\* const uniqueResults = this.removeDuplicates(results);
\* return uniqueResults.sort((a, b) => b.confidence - a.confidence)
Aggregate ==
    /\ pc = "start"
    /\ uniqueResults' = removeDuplicates(results)
    /\ searchResults' = sort(uniqueResults')
    /\ pc' = "aggregated"
    /\ UNCHANGED <<results, extractVars, cleanVars, historyVars, formInput, apiKey,
                   selectedApi, searchQueries, searchAttempts, responses, error>>
    /\ UNCHANGED sideVars

NextAggregate == Aggregate

SpecAggregate == InitAggregate /\ [][NextAggregate]_vars

\* C12: the returned list is in non-increasing order of confidence, and
\* records of equal confidence are in the order of their first occurrence
\* among the records collected.
C12_SortedStable ==
    pc = "aggregated"
    => /\ \A k \in 1..(Len(searchResults) - 1) :
            searchResults[k].confidence >= searchResults[k + 1].confidence
       /\ \A k, l \in 1..Len(searchResults) :
            (k < l /\ searchResults[k].confidence = searchResults[l].confidence)
            => FirstIndex(results, searchResults[k]) < FirstIndex(results, searchResults[l])

\* three records returned: a record moved in front of two of lower, equal
\* confidence that were collected before it
C12_Witness ==
    /\ pc = "aggregated"
    /\ Len(searchResults) = 3
    /\ searchResults[1] = results[3]
    /\ searchResults[2] = results[1]
    /\ searchResults[3] = results[2]
    /\ searchResults[2].confidence = searchResults[3].confidence

\* no two records of a list have the same tuple
Deduplicated(rs) == \A i, j \in 1..Len(rs) : i # j => Tuple(rs[i]) # Tuple(rs[j])

\* a list is in non-increasing order of confidence
Sorted(rs) == \A k \in 1..(Len(rs) - 1) : rs[k].confidence >= rs[k + 1].confidence

\* C13: aggregating a list that is already deduplicated and sorted returns
\* an equal list.
C13_Idempotent ==
    (pc = "aggregated" /\ Deduplicated(results) /\ Sorted(results))
    => searchResults = results

(***************************************************************************)
(* The search: ABCPSearchForm.handleSubmit calls                           *)
(* searchABCPLiquidityProviders, which builds its queries, attempts each   *)
(* through performWebSearch, collects the records extracted from the first *)
(* three items of every response, saves the search to the history and      *)
(* returns the aggregated records or throws.  One submission is followed   *)
(* from the form to its outcome.                                           *)
(***************************************************************************)
PlanLength == 8

\* nothing is ever ignored
submitIgnoredNever(input) == FALSE

\* if (!issuerName.trim()) return
submitIgnored(input) == trim(input) = <<>>

\* the issuer name left out of the queries
searchQueriesBare(name) == [k \in 1..PlanLength |-> <<"A","B","C","P"," ","l","i","q","u","i","d","i","t","y"," ","p","r","o","v","i","d","e","r">>]

\* const searchQueries = [ ... ]
searchQueriesOf(name) == <<
    <<"s","i","t","e",":","s","e","c",".","g","o","v"," ","\"">> \o name
        \o <<"\""," ","A","B","C","P"," ","l","i","q","u","i","d","i","t","y"," ","p","r","o","v","i","d",
        "e","r"," ","c","o","m","m","e","r","c","i","a","l"," ","p","a","p","e","r"," ","f","i","l",
        "i","n","g">>,
    <<"s","i","t","e",":","m","o","o","d","y","s",".","c","o","m"," ","O","R"," ","s","i","t","e",
      ":","s","t","a","n","d","a","r","d","a","n","d","p","o","o","r","s",".","c","o","m"," ","O",
      "R"," ","s","i","t","e",":","f","i","t","c","h","r","a","t","i","n","g","s",".","c","o","m",
      " ","\"">> \o name
        \o <<"\""," ","A","B","C","P"," ","l","i","q","u","i","d","i","t","y"," ","f","a","c","i","l","i",
        "t","i","e","s">>,
    <<"\"">> \o name
        \o <<"\""," ","A","B","C","P"," ","a","s","s","e","t"," ","b","a","c","k","e","d"," ","c","o","m",
        "m","e","r","c","i","a","l"," ","p","a","p","e","r"," ","l","i","q","u","i","d","i","t","y",
        " ","p","r","o","v","i","d","e","r"," ","b","a","n","k"," ","f","a","c","i","l","i","t","y">>,
    <<"\"">> \o name
        \o <<"\""," ","c","o","m","m","e","r","c","i","a","l"," ","p","a","p","e","r"," ","c","o","n","d",
        "u","i","t"," ","a","d","m","i","n","i","s","t","r","a","t","o","r"," ","s","p","o","n","s",
        "o","r"," ","l","i","q","u","i","d","i","t","y"," ","s","u","p","p","o","r","t">>,
    <<"s","i","t","e",":","e","d","g","a","r",".","s","e","c",".","g","o","v"," ","\"">> \o name
        \o <<"\""," ","a","s","s","e","t"," ","b","a","c","k","e","d"," ","c","o","m","m","e","r","c","i",
        "a","l"," ","p","a","p","e","r"," ","p","r","o","g","r","a","m"," ","a","d","m","i","n","i",
        "s","t","r","a","t","o","r">>,
    <<"\"">> \o name
        \o <<"\""," ","A","B","C","P"," ","p","r","o","s","p","e","c","t","u","s"," ","l","i","q","u","i",
        "d","i","t","y"," ","f","a","c","i","l","i","t","y"," ","c","r","e","d","i","t"," ","e","n",
        "h","a","n","c","e","m","e","n","t"," ","b","a","n","k","i","n","g">>,
    <<"s","i","t","e",":","b","l","o","o","m","b","e","r","g",".","c","o","m"," ","O","R"," ","s",
      "i","t","e",":","r","e","u","t","e","r","s",".","c","o","m"," ","\"">> \o name
        \o <<"\""," ","A","B","C","P"," ","l","i","q","u","i","d","i","t","y"," ","p","r","o","v","i","d",
        "e","r"," ","r","a","t","i","n","g">>,
    <<"\"">> \o name
        \o <<"\""," ","a","s","s","e","t"," ","b","a","c","k","e","d"," ","c","o","m","m","e","r","c","i",
        "a","l"," ","p","a","p","e","r"," ","b","a","c","k","u","p"," ","l","i","q","u","i","d","i",
        "t","y"," ","c","o","m","m","i","t","t","e","d"," ","f","a","c","i","l","i","t","y">> >>

\* what performWebSearch gives: an error thrown, or a response
Thrown(message) == [thrown |-> TRUE, message |-> message, results |-> <<>>]
Response(items) == [thrown |-> FALSE, message |-> <<>>, results |-> items]
Item(u, c, s) == [url |-> u, content |-> c, snippet |-> s]

ConfigError == <<"A","P","I"," ","k","e","y"," ","n","o","t"," ","c","o","n","f","i","g","u","r","e","d">>
TransportError == <<"H","T","T","P"," ","5","0","0",":"," ","I","n","t","e","r","n","a","l"," ","S","e","r","v",
        "e","r"," ","E","r","r","o","r">>
NotFoundError(attempts) ==
    <<"C","o","u","l","d"," ","n","o","t"," ","f","i","n","d"," ","r","e","l","e","v","a","n","t",
      " ","i","n","f","o","r","m","a","t","i","o","n"," ","a","f","t","e","r"," ">> \o attempts
        \o <<" ","s","e","a","r","c","h"," ","a","t","t","e","m","p","t","s","."," ","P","l","e","a","s",
        "e"," ","t","r","y"," ","a"," ","d","i","f","f","e","r","e","n","t"," ","i","s","s","u","e",
        "r"," ","n","a","m","e"," ","o","r"," ","c","h","e","c","k"," ","i","f"," ","t","h","e"," ",
        "A","B","C","P"," ","p","r","o","g","r","a","m"," ","e","x","i","s","t","s",".">>

\* performMockSearch
MockResponse == Response(<<
    Item(<<"h","t","t","p","s",":","/","/","s","e","c",".","g","o","v","/","e","x","a","m","p","l","e",
        "-","a","b","c","p","-","f","i","l","i","n","g">>, MockContent1,
         <<"S","E","C"," ","f","i","l","i","n","g"," ","i","n","f","o","r","m","a","t","i","o","n"," ",
        "a","b","o","u","t"," ","A","B","C","P"," ","l","i","q","u","i","d","i","t","y"," ","a","r",
        "r","a","n","g","e","m","e","n","t","s">>),
    Item(<<"h","t","t","p","s",":","/","/","m","o","o","d","y","s",".","c","o","m","/","a","b","c","p",
        "-","r","a","t","i","n","g","-","r","e","p","o","r","t">>, MockContent2,
         <<"M","o","o","d","y","'","s"," ","r","a","t","i","n","g"," ","a","g","e","n","c","y"," ","r",
        "e","p","o","r","t"," ","o","n"," ","A","B","C","P"," ","l","i","q","u","i","d","i","t","y",
        " ","a","r","r","a","n","g","e","m","e","n","t","s">>),
    Item(<<"h","t","t","p","s",":","/","/","b","l","o","o","m","b","e","r","g",".","c","o","m","/","a",
        "b","c","p","-","m","a","r","k","e","t","-","n","e","w","s">>, MockContent3,
         <<"B","l","o","o","m","b","e","r","g"," ","f","i","n","a","n","c","i","a","l"," ","n","e","w",
        "s"," ","o","n"," ","A","B","C","P"," ","m","a","r","k","e","t"," ","t","r","e","n","d","s">>) >>)

\* responses of a search API: no result; four results, of which the second
\* is unrelated, the third has its text in the snippet and no url, and the
\* fourth is beyond the three that are read
ApiResponses == {
    Response(<<>>),
    Response(<<
        Item(<<"u","1">>, <<"l","i","q","u","i","d","i","t","y"," ","p","r","o","v","i","d","e","r",":"," ","x","."," ",
        "a","d","m","i","n","i","s","t","r","a","t","o","r",":"," ","y","-","z","."," ","a","b","c",
        "p">>, <<"s">>),
        Item(<<"u","1">>, <<"s","t","a","n","d","b","y"," ","l","i","q","u","i","d","i","t","y",":"," ","q","."," ">>, <<"s">>),
        Item(<<>>, <<>>, <<"Z","q"," ","F","u","n","d","i","n","g",":"," ","l","i","q","u","i","d","i","t","y"," ","p",
        "r","o","v","i","d","e","r",":"," ","w","."," ","s","p","o","n","s","o","r",":"," ","z",".",
        " ","a","b","c","p">>),
        Item(<<"u","2">>, <<"l","i","q","u","i","d","i","t","y"," ","p","r","o","v","i","d","e","r",":"," ","x","-","y",
        "."," ","a","d","m","i","n","i","s","t","r","a","t","o","r",":"," ","z","."," ","a","b","c",
        "p">>, <<"s">>) >>) }

\* item.content || item.snippet || ''
contentOf(item) == IF item.content # <<>> THEN item.content ELSE item.snippet

\* item.url || item.link || 'Web Search'
sourceOf(item) == IF item.url # <<>> THEN item.url ELSE <<"W","e","b"," ","S","e","a","r","c","h">>

\* the loop over searchResponse.results.slice(0, 3)
pushExtracted(rs, items, name) ==
    The({rs \o [i \in 1..Len(pushed) |-> withSource(pushed[i][1][1], pushed[i][2])] :
         pushed \in {SelectSeq(
             [i \in 1..Len(items) |->
                 <<extractABCPInfoFromText(contentOf(items[i]), name), sourceOf(items[i])>>],
             LAMBDA e : IsSet(e[1]))}})

\* the records of a search lost when a query fails
collectOrReset(rs, response, name) ==
    IF response.thrown THEN <<>> ELSE pushExtracted(rs, slice(response.results, 3), name)

\* the body of the try: nothing is pushed when performWebSearch throws
collect(rs, response, name) ==
    IF response.thrown THEN rs ELSE pushExtracted(rs, slice(response.results, 3), name)

\* what performWebSearch can give for a query: without a key it throws; the
\* default branch of its switch gives the mock response; a search API gives a
\* response, or fails, and the failure is thrown on (part_004), where
\* part_006 answers it with the mock response
performWebSearch(storedKey, api) ==
    IF ~Truthy(storedKey) THEN {Thrown(ConfigError)}
    ELSE IF api = "google" THEN ApiResponses \cup {Thrown(TransportError)}
    ELSE {MockResponse}

\* Number.prototype.toString
Digit(n) == <<"0","1","2","3","4","5","6","7","8","9">>[n + 1]
RECURSIVE toString(_)
toString(n) == IF n < 10 THEN <<Digit(n)>> ELSE toString(n \div 10) \o <<Digit(n % 10)>>

HistoryCap == 20

\* the entry dropped in place of the oldest one
saveWithoutNewest(stored, newSearch) == slice(stored, HistoryCap)

\* the stored history replaced by the new entry
saveOverStored(stored, newSearch) == <<newSearch>>

\* history.unshift(newSearch); history.slice(0, 20)
saveSearchToHistory(stored, newSearch) == slice(<<newSearch>> \o stored, HistoryCap)

\* an empty list is returned
notFoundNever(rs) == FALSE

\* if (results.length === 0) throw
notFound(rs) == Len(rs) = 0

FormInputs == {<<>>, <<" ","\t">>, <<"A","B">>, <<" ","Z","q"," ","F","u","n","d","i","n","g"," ">>}
ApiKeys == {Undefined, Some(<<"k">>)}
SelectedApis == {"google", "mock"}

InitSearch ==
    /\ NoSide
    /\ pc = "form"
    /\ formInput \in FormInputs
    /\ apiKey \in ApiKeys
    /\ selectedApi \in SelectedApis
    /\ issuerName = <<>>
    /\ searchQueries = <<>> /\ searchAttempts = 0 /\ responses = <<>>
    /\ results = <<>> /\ uniqueResults = <<>> /\ searchResults = <<>>
    /\ error = Undefined
    /\ history = <<>> /\ clock = 1 /\ saved = 0
    /\ content = <<>> /\ fileName = <<>> /\ extractedData = Undefined
    /\ captured = <<>> /\ cleanedText = <<>>

\* handleSubmit up to the call of searchABCPLiquidityProviders(issuerName.trim()),
\* and that call up to its loop
Submit ==
    /\ pc = "form"
    /\ IF submitIgnored(formInput)
       THEN /\ pc' = "ignored"
            /\ UNCHANGED <<issuerName, searchQueries>>
       ELSE /\ pc' = "searching"
            /\ issuerName' = trim(formInput)
            /\ searchQueries' = searchQueriesOf(issuerName')
    /\ UNCHANGED <<content, fileName, extractedData, cleanVars, dedupVars, historyVars,
                   searchResults, formInput, apiKey, selectedApi, searchAttempts,
                   responses, error>>
    /\ UNCHANGED sideVars

\* one turn of the loop over the queries
AttemptQuery ==
    /\ pc = "searching"
    /\ searchAttempts < Len(searchQueries)
    /\ searchAttempts' = searchAttempts + 1
    /\ \E response \in performWebSearch(apiKey, selectedApi) :
          /\ responses' = Append(responses, response)
          /\ results' = collect(results, response, issuerName)
    /\ UNCHANGED <<pc, extractVars, cleanVars, uniqueResults, historyVars, searchResults,
                   formInput, apiKey, selectedApi, searchQueries, error>>
    /\ UNCHANGED sideVars

\* the not-found test made before the search is saved
FinishThrowFirst ==
    /\ pc = "searching"
    /\ searchAttempts = Len(searchQueries)
    /\ IF notFound(results)
       THEN /\ error' = Some(NotFoundError(toString(searchAttempts)))
            /\ pc' = "failed"
            /\ UNCHANGED <<uniqueResults, searchResults, historyVars>>
       ELSE /\ \E id \in clock..(clock + 1) : \E timestamp \in id..(clock + 1) :
                  /\ history' = saveSearchToHistory(history,
                                    [id |-> toString(id), issuer |-> issuerName,
                                     timestamp |-> timestamp, results |-> results])
                  /\ clock' = timestamp
            /\ saved' = saved + 1
            /\ uniqueResults' = removeDuplicates(results)
            /\ searchResults' = sort(uniqueResults')
            /\ pc' = "returned"
            /\ error' = Undefined
    /\ UNCHANGED <<extractVars, cleanVars, results, formInput, apiKey, selectedApi,
                   searchQueries, searchAttempts, responses>>
    /\ UNCHANGED sideVars

\* after the loop: the search is saved, then thrown as not found or returned
Finish ==
    /\ pc = "searching"
    /\ searchAttempts = Len(searchQueries)
    /\ \E id \in clock..(clock + 1) : \E timestamp \in id..(clock + 1) :
          /\ history' = saveSearchToHistory(history,
                            [id |-> toString(id), issuer |-> issuerName,
                             timestamp |-> timestamp, results |-> results])
          /\ clock' = timestamp
    /\ saved' = saved + 1
    /\ IF notFound(results)
       THEN /\ error' = Some(NotFoundError(toString(searchAttempts)))
            /\ pc' = "failed"
            /\ UNCHANGED <<uniqueResults, searchResults>>
       ELSE /\ uniqueResults' = removeDuplicates(results)
            /\ searchResults' = sort(uniqueResults')
            /\ pc' = "returned"
            /\ error' = Undefined
    /\ UNCHANGED <<extractVars, cleanVars, results, formInput, apiKey, selectedApi,
                   searchQueries, searchAttempts, responses>>
    /\ UNCHANGED sideVars

NextSearch == Submit \/ AttemptQuery \/ Finish

SpecSearch == InitSearch /\ [][NextSearch]_vars

(***************************************************************************)
(* Properties of the search                                                *)
(***************************************************************************)
Searched == pc \in {"searching", "returned", "failed"}
Ended == pc \in {"returned", "failed"}

\* the plan for the issuer AB, written out
PlanAB == <<
    <<"s","i","t","e",":","s","e","c",".","g","o","v"," ","\"","A","B","\""," ","A","B","C","P",
      " ","l","i","q","u","i","d","i","t","y"," ","p","r","o","v","i","d","e","r"," ","c","o","m",
      "m","e","r","c","i","a","l"," ","p","a","p","e","r"," ","f","i","l","i","n","g">>,
    <<"s","i","t","e",":","m","o","o","d","y","s",".","c","o","m"," ","O","R"," ","s","i","t","e",
      ":","s","t","a","n","d","a","r","d","a","n","d","p","o","o","r","s",".","c","o","m"," ","O",
      "R"," ","s","i","t","e",":","f","i","t","c","h","r","a","t","i","n","g","s",".","c","o","m",
      " ","\"","A","B","\""," ","A","B","C","P"," ","l","i","q","u","i","d","i","t","y"," ","f",
      "a","c","i","l","i","t","i","e","s">>,
    <<"\"","A","B","\""," ","A","B","C","P"," ","a","s","s","e","t"," ","b","a","c","k","e","d",
      " ","c","o","m","m","e","r","c","i","a","l"," ","p","a","p","e","r"," ","l","i","q","u","i",
      "d","i","t","y"," ","p","r","o","v","i","d","e","r"," ","b","a","n","k"," ","f","a","c","i",
      "l","i","t","y">>,
    <<"\"","A","B","\""," ","c","o","m","m","e","r","c","i","a","l"," ","p","a","p","e","r"," ",
      "c","o","n","d","u","i","t"," ","a","d","m","i","n","i","s","t","r","a","t","o","r"," ","s",
      "p","o","n","s","o","r"," ","l","i","q","u","i","d","i","t","y"," ","s","u","p","p","o","r",
      "t">>,
    <<"s","i","t","e",":","e","d","g","a","r",".","s","e","c",".","g","o","v"," ","\"","A","B",
      "\""," ","a","s","s","e","t"," ","b","a","c","k","e","d"," ","c","o","m","m","e","r","c","i",
      "a","l"," ","p","a","p","e","r"," ","p","r","o","g","r","a","m"," ","a","d","m","i","n","i",
      "s","t","r","a","t","o","r">>,
    <<"\"","A","B","\""," ","A","B","C","P"," ","p","r","o","s","p","e","c","t","u","s"," ","l",
      "i","q","u","i","d","i","t","y"," ","f","a","c","i","l","i","t","y"," ","c","r","e","d","i",
      "t"," ","e","n","h","a","n","c","e","m","e","n","t"," ","b","a","n","k","i","n","g">>,
    <<"s","i","t","e",":","b","l","o","o","m","b","e","r","g",".","c","o","m"," ","O","R"," ","s",
      "i","t","e",":","r","e","u","t","e","r","s",".","c","o","m"," ","\"","A","B","\""," ","A",
      "B","C","P"," ","l","i","q","u","i","d","i","t","y"," ","p","r","o","v","i","d","e","r"," ",
      "r","a","t","i","n","g">>,
    <<"\"","A","B","\""," ","a","s","s","e","t"," ","b","a","c","k","e","d"," ","c","o","m","m",
      "e","r","c","i","a","l"," ","p","a","p","e","r"," ","b","a","c","k","u","p"," ","l","i","q",
      "u","i","d","i","t","y"," ","c","o","m","m","i","t","t","e","d"," ","f","a","c","i","l","i",
      "t","y">> >>

\* C14: the plan of a search has eight queries, each holding the issuer
\* name verbatim, and is the same sequence whenever the name is the same,
\* whatever the key, the API and the responses.
C14_QueryPlan ==
    Searched
    => /\ issuerName # <<>>
       /\ Len(searchQueries) = PlanLength
       /\ \A k \in 1..Len(searchQueries) : includes(searchQueries[k], issuerName)
       /\ issuerName = <<"A","B">> => searchQueries = PlanAB

\* a search for a name typed with blanks around it, after its last query
C14_Witness ==
    /\ pc = "returned"
    /\ issuerName = <<"Z","q"," ","F","u","n","d","i","n","g">>
    /\ formInput # issuerName
    /\ searchAttempts = PlanLength

\* C15: for a name that is empty after trimming there is no plan and no
\* query is attempted.
C15_BlankNameNoQuery ==
    trim(formInput) = <<>>
    => /\ pc \in {"form", "ignored"}
       /\ searchQueries = <<>>
       /\ searchAttempts = 0
       /\ responses = <<>>

\* a name of blanks submitted
C15_Witness == pc = "ignored" /\ formInput # <<>>

\* the records of the first three items of a response, in order
RECURSIVE RecordsOf(_, _, _)
RecordsOf(response, name, i) ==
    IF i > Min(3, Len(response.results)) THEN <<>>
    ELSE LET item == response.results[i]
             data == extractABCPInfoFromText(contentOf(item), name)
         IN  (IF data = Undefined THEN <<>>
              ELSE <<[data[1] EXCEPT !.source = sourceOf(item)]>>)
                 \o RecordsOf(response, name, i + 1)

SearchNames == {trim(input) : input \in FormInputs}

ExpectedRecords ==
    [response \in ApiResponses \cup {MockResponse, Thrown(ConfigError), Thrown(TransportError)},
     name \in SearchNames |->
        IF response.thrown THEN <<>> ELSE RecordsOf(response, name, 1)]

\* the records of the responses that were not thrown, in the order of the queries
RECURSIVE Collected(_, _)
Collected(rsps, name) ==
    IF rsps = <<>> THEN <<>>
    ELSE Collected(SubSeq(rsps, 1, Len(rsps) - 1), name) \o ExpectedRecords[rsps[Len(rsps)], name]

\* C17: a query that throws does not end the search: every query of the plan
\* is attempted, the records collected are those of the queries that did not
\* throw, and when there are any the search returns them aggregated.
C17_FailureNotFatal ==
    /\ Searched => /\ Len(responses) = searchAttempts
                   /\ results = Collected(responses, issuerName)
    /\ Ended => searchAttempts = PlanLength
    /\ (Ended /\ results # <<>>)
          => (pc = "returned" /\ searchResults = sort(removeDuplicates(results)))

\* a search that returns records although a query before them threw
C17_Witness ==
    /\ pc = "returned"
    /\ \E k, l \in 1..Len(responses) :
          /\ k < l
          /\ responses[k].thrown
          /\ ~responses[l].thrown
          /\ ExpectedRecords[responses[l], issuerName] # <<>>
    /\ responses[Len(responses)].thrown

\* C18: with no record extracted the search throws the not-found error;
\* a list it returns is never empty.
C18_NotFoundOrNonEmpty ==
    /\ pc = "returned" => (Len(searchResults) > 0 /\ error = Undefined)
    /\ (Ended /\ results = <<>>)
          => (pc = "failed" /\ error = Some(NotFoundError(toString(PlanLength))))

\* every query answered, none with a record
C18_Witness ==
    /\ pc = "failed"
    /\ \A k \in 1..Len(responses) : ~responses[k].thrown
    /\ Len(responses) = PlanLength

\* C19: without an API key the caller of the search receives the
\* configuration error, and no query is attempted.
C19_ConfigErrorSurfaced ==
    (Ended /\ ~Truthy(apiKey))
    => (error = Some(ConfigError) /\ searchAttempts = 0)

\* C22: the history entry of a search holds the list the search returned,
\* deduplicated and sorted by confidence.
C22_HistoryHoldsAggregated ==
    pc = "returned" => (history # <<>> /\ history[1].results = searchResults)

\* C30: a search that ends in the not-found error has stored its history
\* entry, with an empty list of results.
C30_FailedSearchRecorded ==
    pc = "failed"
    => /\ saved = 1
       /\ Len(history) = 1
       /\ history[1].issuer = issuerName
       /\ history[1].results = <<>>

\* a search without a key: every query threw, and the entry is there
C30_Witness ==
    /\ pc = "failed"
    /\ \A k \in 1..Len(responses) : responses[k].thrown
    /\ Len(responses) = PlanLength
    /\ Len(history) = 1

(***************************************************************************)
(* The stored history over several searches                                *)
(***************************************************************************)
MaxSaves == 2

\* the loop over the plan
RECURSIVE collectAll(_, _, _)
collectAll(rs, rsps, name) ==
    IF rsps = <<>> THEN rs
    ELSE The({collectAll(pushed, Tail(rsps), name) :
                 pushed \in {collect(rs, Head(rsps), name)}})

\* the history n earlier searches for AB without a record have left, one
\* search per tick of the clock
RECURSIVE Stored(_)
Stored(n) ==
    IF n = 0 THEN <<>>
    ELSE saveSearchToHistory(Stored(n - 1),
             [id |-> toString(n), issuer |-> <<"A","B">>, timestamp |-> n, results |-> <<>>])

InitHistory ==
    /\ NoSide
    /\ pc = "form"
    /\ \E n \in 0..HistoryCap : history = Stored(n) /\ clock = n + 1
    /\ saved = 0
    /\ formInput = <<>>
    /\ apiKey \in ApiKeys
    /\ selectedApi = "google"
    /\ issuerName = <<>>
    /\ searchQueries = <<>> /\ searchAttempts = 0 /\ responses = <<>>
    /\ results = <<>> /\ uniqueResults = <<>> /\ searchResults = <<>>
    /\ error = Undefined
    /\ content = <<>> /\ fileName = <<>> /\ extractedData = Undefined
    /\ captured = <<>> /\ cleanedText = <<>>

\* a whole search from the form; its first query is answered in any way,
\* the others throw as it did or find nothing
Search ==
    /\ pc \in {"form", "returned", "failed"}
    /\ saved < MaxSaves
    /\ \E input \in {i \in FormInputs : ~submitIgnored(i)} :
          /\ formInput' = input
          /\ issuerName' = trim(input)
    /\ searchQueries' = searchQueriesOf(issuerName')
    /\ searchAttempts' = Len(searchQueries')
    /\ \E response \in performWebSearch(apiKey, selectedApi) :
          responses' = [k \in 1..Len(searchQueries') |->
                           IF k = 1 \/ ~Truthy(apiKey) THEN response ELSE Response(<<>>)]
    /\ results' = collectAll(<<>>, responses', issuerName')
    /\ \E id \in clock..(clock + 1) : \E timestamp \in id..(clock + 1) :
          /\ history' = saveSearchToHistory(history,
                            [id |-> toString(id), issuer |-> issuerName',
                             timestamp |-> timestamp, results |-> results'])
          /\ clock' = timestamp
    /\ saved' = saved + 1
    /\ IF notFound(results')
       THEN /\ error' = Some(NotFoundError(toString(searchAttempts')))
            /\ pc' = "failed"
            /\ UNCHANGED <<uniqueResults, searchResults>>
       ELSE /\ uniqueResults' = removeDuplicates(results')
            /\ searchResults' = sort(uniqueResults')
            /\ pc' = "returned"
            /\ error' = Undefined
    /\ UNCHANGED <<content, fileName, extractedData, cleanVars, apiKey, selectedApi>>
    /\ UNCHANGED sideVars

\* SearchHistory: clearSearchHistory
ClearHistory ==
    /\ history # <<>>
    /\ history' = <<>>
    /\ UNCHANGED <<pc, extractVars, cleanVars, dedupVars, searchVars, clock, saved>>
    /\ UNCHANGED sideVars

NextHistory == Search \/ ClearHistory

SpecHistory == InitHistory /\ [][NextHistory]_vars

NewestFirst(h) ==
    \A i, j \in 1..Len(h) : i < j => h[i].timestamp >= h[j].timestamp

\* C16: the stored history never holds more than 20 entries and is ordered
\* newest first; a search puts its entry at the front, the entries stored
\* before follow it in their order, and of 20 stored entries the oldest is
\* dropped.
C16_HistoryCapped ==
    /\ [](Len(history) <= HistoryCap /\ NewestFirst(history))
    /\ [][saved' # saved =>
            /\ Len(history') = Min(Len(history) + 1, HistoryCap)
            /\ history'[1].issuer = issuerName' /\ history'[1].results = results'
            /\ \A i \in 2..Len(history') : history'[i] = history[i - 1]]_vars

\* a search saved over 20 stored entries: the oldest of them is gone, the
\* second oldest is last
C16_Witness ==
    /\ saved = 1
    /\ Len(history) = HistoryCap
    /\ history[1].issuer = <<"Z","q"," ","F","u","n","d","i","n","g">>
    /\ history[HistoryCap].timestamp = 2
    /\ history[2].timestamp = HistoryCap

\* C23: no two entries of the stored history have the same id.
C23_UniqueIds ==
    \A i, j \in 1..Len(history) : i # j => history[i].id # history[j].id

(***************************************************************************)
(* FirecrawlService.crawlWebsite: the crawl is started, then its status is *)
(* polled.  Every await of it settles: a fetch resolves or rejects, a      *)
(* timer fires.                                                            *)
(***************************************************************************)
maxAttempts == 30
PollWait == 10

\* what a fetch, and the .json() after it, can give: a rejection, or a
\* response with its ok flag, HTTP status and parsed body
Rejected(message) == [thrown |-> TRUE, message |-> message]
Fetched(ok, status, body) == [thrown |-> FALSE, ok |-> ok, status |-> status, body |-> body]
StartBody(success, err) == [success |-> success, error |-> err]
StatusBody(status, err) == [status |-> status, error |-> err]

StartResponses == {
    Rejected(<<"F","a","i","l","e","d"," ","t","o"," ","f","e","t","c","h">>),
    Fetched(FALSE, 402, StartBody(FALSE, Some(<<"P","a","y","m","e","n","t"," ","r","e","q","u","i","r","e","d">>))),
    Fetched(FALSE, 500, StartBody(FALSE, Undefined)),
    Fetched(TRUE, 200, StartBody(FALSE, Some(<<"I","n","v","a","l","i","d"," ","u","r","l">>))),
    Fetched(TRUE, 200, StartBody(FALSE, Undefined)),
    Fetched(TRUE, 200, StartBody(TRUE, Undefined)) }

StatusResponses == {
    Rejected(<<"F","a","i","l","e","d"," ","t","o"," ","f","e","t","c","h">>),
    Fetched(FALSE, 404, StatusBody("", Some(<<"J","o","b"," ","n","o","t"," ","f","o","u","n","d">>))),
    Fetched(FALSE, 500, StatusBody("", Undefined)),
    Fetched(TRUE, 200, StatusBody("completed", Undefined)),
    Fetched(TRUE, 200, StatusBody("failed", Undefined)),
    Fetched(TRUE, 200, StatusBody("scraping", Undefined)) }

Success == [success |-> TRUE, error |-> Undefined]
Failure(message) == [success |-> FALSE, error |-> Some(message)]

\* x || fallback, for an optional string
orElse(o, fallback) == IF Truthy(o) THEN o[1] ELSE fallback

\* a crawl taken as started whenever the request was answered
crawlStartedAnyway(r) == TRUE

\* neither !crawlResponse.ok nor !crawlResult.success
crawlStarted(r) == r.ok /\ r.body.success

\* what crawlWebsite returns for a start that did not succeed
startFailure(r) ==
    IF r.thrown THEN Failure(r.message)
    ELSE IF ~r.ok
    THEN Failure(orElse(r.body.error, <<"H","T","T","P"," ">> \o toString(r.status) \o <<":"," ","F","a","i","l","e","d"," ","t","o"," ","s","t","a","r","t"," ","c","r","a","w","l">>))
    ELSE Failure(orElse(r.body.error, <<"F","a","i","l","e","d"," ","t","o"," ","s","t","a","r","t"," ","c","r","a","w","l">>))

\* one poll more than maxAttempts
pollAgainOnceMore(attempts) == attempts < maxAttempts + 1

\* while (attempts < maxAttempts)
pollAgain(attempts) == attempts < maxAttempts

\* the status poll ends the loop: what is returned
pollEnds(r) == r.thrown \/ ~r.ok \/ r.body.status \in {"completed", "failed"}
pollResult(r) ==
    IF r.thrown THEN Failure(r.message)
    ELSE IF ~r.ok THEN Failure(orElse(r.body.error, <<"F","a","i","l","e","d"," ","t","o"," ","c","h","e","c","k"," ","c","r","a","w","l"," ","s",
        "t","a","t","u","s">>))
    ELSE IF r.body.status = "completed" THEN Success
    ELSE Failure(<<"C","r","a","w","l"," ","j","o","b"," ","f","a","i","l","e","d">>)

TimedOut == Failure(<<"C","r","a","w","l"," ","t","i","m","e","d"," ","o","u","t"," ","a","f","t","e","r"," ","5",
        " ","m","i","n","u","t","e","s">>)
KeyNotFound == Failure(<<"A","P","I"," ","k","e","y"," ","n","o","t"," ","f","o","u","n","d">>)

InitCrawl ==
    /\ pc = "crawl"
    /\ \E storedKey \in ApiKeys : crawl = [NoCrawl EXCEPT !.apiKey = storedKey]
    /\ form = FormAtRest /\ calls = <<>> /\ requests = <<>>
    /\ searchResults = <<>> /\ formInput = <<>> /\ apiKey = Undefined
    /\ selectedApi = "google" /\ searchQueries = <<>> /\ searchAttempts = 0
    /\ responses = <<>> /\ error = Undefined
    /\ history = <<>> /\ clock = 0 /\ saved = 0
    /\ content = <<>> /\ issuerName = <<>> /\ fileName = <<>>
    /\ extractedData = Undefined
    /\ captured = <<>> /\ cleanedText = <<>>
    /\ results = <<>> /\ uniqueResults = <<>>

\* crawlWebsite up to its first await
StartCrawl ==
    /\ crawl.pc = "idle"
    /\ crawl' = IF ~Truthy(crawl.apiKey)
                THEN [crawl EXCEPT !.pc = "returned", !.result = Some(KeyNotFound)]
                ELSE [crawl EXCEPT !.pc = "starting", !.starts = @ + 1]
    /\ UNCHANGED <<pc, extractVars, cleanVars, dedupVars, searchVars, historyVars, form, calls, requests>>

\* the start request settles; a started crawl enters the loop
StartSettles ==
    /\ crawl.pc = "starting"
    /\ \E r \in StartResponses :
          crawl' = IF ~r.thrown /\ crawlStarted(r)
                   THEN IF pollAgain(crawl.attempts)
                        THEN [crawl EXCEPT !.pc = "waiting", !.start = Some(r)]
                        ELSE [crawl EXCEPT !.pc = "returned", !.start = Some(r),
                                           !.result = Some(TimedOut)]
                   ELSE [crawl EXCEPT !.pc = "returned", !.start = Some(r),
                                      !.result = Some(startFailure(r))]
    /\ UNCHANGED <<pc, extractVars, cleanVars, dedupVars, searchVars, historyVars, form, calls, requests>>

\* the 10 seconds are over: the status request is sent
TimerFires ==
    /\ crawl.pc = "waiting"
    /\ crawl' = [crawl EXCEPT !.pc = "polling", !.waited = @ + PollWait, !.polls = @ + 1]
    /\ UNCHANGED <<pc, extractVars, cleanVars, dedupVars, searchVars, historyVars, form, calls, requests>>

\* the status request settles: return, or attempts++ and the loop test
StatusSettles ==
    /\ crawl.pc = "polling"
    /\ \E r \in StatusResponses :
          crawl' = IF pollEnds(r)
                   THEN [crawl EXCEPT !.pc = "returned", !.last = Some(r),
                                      !.result = Some(pollResult(r))]
                   ELSE IF pollAgain(crawl.attempts + 1)
                        THEN [crawl EXCEPT !.pc = "waiting", !.last = Some(r),
                                           !.attempts = @ + 1]
                        ELSE [crawl EXCEPT !.pc = "returned", !.last = Some(r),
                                           !.attempts = @ + 1, !.result = Some(TimedOut)]
    /\ UNCHANGED <<pc, extractVars, cleanVars, dedupVars, searchVars, historyVars, form, calls, requests>>

NextCrawl == StartCrawl \/ StartSettles \/ TimerFires \/ StatusSettles

SpecCrawl == InitCrawl /\ [][NextCrawl]_vars /\ WF_vars(NextCrawl)

CrawlReturned == crawl.pc = "returned"

\* C24: crawlWebsite returns; it makes at most 30 status polls, each after
\* a wait of 10 seconds, none after a poll that is thrown, not OK,
\* 'completed' or 'failed', and returns the time-out error after 30 polls
\* of another status.
C24_CrawlTerminates ==
    /\ [](/\ crawl.polls <= maxAttempts
          /\ crawl.waited = PollWait * crawl.polls
          /\ crawl.pc = "waiting" => crawl.polls = crawl.attempts
          /\ crawl.pc = "polling" => crawl.polls = crawl.attempts + 1
          /\ (CrawlReturned /\ IsSet(crawl.last))
                => IF pollEnds(crawl.last[1])
                   THEN crawl.polls = crawl.attempts + 1
                           /\ crawl.result = Some(pollResult(crawl.last[1]))
                   ELSE crawl.polls = maxAttempts /\ crawl.attempts = maxAttempts
                           /\ crawl.result = Some(TimedOut))
    /\ <>CrawlReturned

\* 30 polls of the status 'scraping': the time-out, after 300 seconds of waits
C24_Witness ==
    /\ CrawlReturned
    /\ crawl.polls = 30
    /\ crawl.waited = 300
    /\ ~crawl.last[1].thrown
    /\ crawl.last[1].body.status = "scraping"
    /\ crawl.result = Some(TimedOut)

FormApis == {"google", "bing", "serpapi", "firecrawl"}
KeyInputs == {<<" ","k","1"," ">>, <<"k","2">>}

\* the first query of the plan
proxyQuery(name) ==
    <<"\"">> \o name \o <<"\""," ","A","B","C","P"," ","a","s","s","e","t"," ","b","a","c","k","e","d"," ","c","o","m",
        "m","e","r","c","i","a","l"," ","p","a","p","e","r"," ","l","i","q","u","i","d","i","t","y",
        " ","p","r","o","v","i","d","e","r"," ","b","a","n","k"," ","f","a","c","i","l","i","t","y">>
DispatchQueries == {proxyQuery(<<"A","B">>), proxyQuery(<<"Z","q">>), proxyQuery(<<"Z","q"," ","F","u","n","d","i","n","g">>)}

UnsupportedError == <<"U","n","s","u","p","p","o","r","t","e","d"," ","A","P","I"," ","t","y","p","e">>
HttpResponse(status, err, items) == [status |-> status, error |-> err, results |-> items]

\* Response.ok
ok(response) == response.status \in 200..299

\* the cases of the handler's switch
dispatched(apiType) == apiType \in {"google", "bing", "serpapi"}

\* what performGoogleSearch, performBingSearch and performSerpApiSearch can
\* do: return the mapped items, or throw on a response that is not OK
providerSearch(apiType) ==
    ApiResponses \cup
    {Thrown(CASE apiType = "google" -> <<"G","o","o","g","l","e"," ","S","e","a","r","c","h"," ","A","P","I"," ","e","r","r","o","r",
        ":"," ","4","0","3"," ","F","o","r","b","i","d","d","e","n">>
              [] apiType = "bing" -> <<"B","i","n","g"," ","S","e","a","r","c","h"," ","A","P","I"," ","e","r","r","o","r",":"," ",
        "4","0","1"," ","U","n","a","u","t","h","o","r","i","z","e","d">>
              [] OTHER -> <<"S","e","r","p","A","P","I"," ","e","r","r","o","r",":"," ","4","0","1"," ","U","n","a","u",
        "t","h","o","r","i","z","e","d">>)}

\* the /api/websearch handler: the responses it can send
handler(method, query, sentKey, apiType) ==
    IF method # "POST" THEN {HttpResponse(405, Some(<<"M","e","t","h","o","d"," ","n","o","t"," ","a","l","l","o","w","e","d">>), <<>>)}
    ELSE IF query = <<>> \/ ~Truthy(sentKey)
    THEN {HttpResponse(400, Some(<<"Q","u","e","r","y"," ","a","n","d"," ","A","P","I"," ","k","e","y"," ","a","r","e"," ","r",
        "e","q","u","i","r","e","d">>), <<>>)}
    ELSE IF ~dispatched(apiType) THEN {HttpResponse(400, Some(UnsupportedError), <<>>)}
    ELSE {IF o.thrown THEN HttpResponse(500, Some(o.message), <<>>)
                      ELSE HttpResponse(200, Undefined, o.results) :
          o \in providerSearch(apiType)}

\* performWebSearch after its key test: the fetch rejects, or the handler's
\* response is thrown as an error when it is not OK and returned otherwise
received(response) ==
    IF ok(response) THEN Response(response.results)
    ELSE Thrown(orElse(response.error, <<"H","T","T","P"," ">> \o toString(response.status) \o <<":"," ">>))

InitDispatch ==
    /\ pc = "setup"
    /\ NoSide
    /\ searchResults = <<>> /\ formInput = <<>> /\ apiKey = Undefined
    /\ selectedApi = "google" /\ searchQueries = <<>> /\ searchAttempts = 0
    /\ responses = <<>> /\ error = Undefined
    /\ history = <<>> /\ clock = 0 /\ saved = 0
    /\ content = <<>> /\ issuerName = <<>> /\ fileName = <<>>
    /\ extractedData = Undefined
    /\ captured = <<>> /\ cleanedText = <<>>
    /\ results = <<>> /\ uniqueResults = <<>>

\* ApiKeyForm.handleSubmit: the button is enabled for a key that is not blank
SetupApi ==
    /\ pc = "setup"
    /\ \E keyInput \in KeyInputs, api \in FormApis :
          /\ trim(keyInput) # <<>>
          /\ apiKey' = Some(trim(keyInput))
          /\ selectedApi' = api
    /\ pc' = "configured"
    /\ UNCHANGED <<searchResults, formInput, searchQueries, searchAttempts, responses, error>>
    /\ UNCHANGED <<extractVars, cleanVars, dedupVars, historyVars, sideVars>>

\* performWebSearch up to its fetch
SendQuery ==
    /\ pc \in {"setup", "configured"}
    /\ \E query \in DispatchQueries : searchQueries' = <<query>>
    /\ IF ~Truthy(apiKey)
       THEN pc' = "threw" /\ responses' = <<Thrown(ConfigError)>>
       ELSE pc' = "requested" /\ responses' = <<>>
    /\ UNCHANGED <<searchResults, formInput, apiKey, selectedApi, searchAttempts, error>>
    /\ UNCHANGED <<extractVars, cleanVars, dedupVars, historyVars, sideVars>>

\* the request is rejected, or the handler answers it; performWebSearch
\* returns the data or throws
Settle ==
    /\ pc = "requested"
    /\ \E r \in {Thrown(<<"F","a","i","l","e","d"," ","t","o"," ","f","e","t","c","h">>)}
                \cup {received(response) :
                        response \in handler("POST", searchQueries[1], apiKey, selectedApi)} :
          /\ responses' = <<r>>
          /\ pc' = IF r.thrown THEN "threw" ELSE "answered"
    /\ UNCHANGED <<searchResults, formInput, apiKey, selectedApi, searchQueries, searchAttempts,
                   error>>
    /\ UNCHANGED <<extractVars, cleanVars, dedupVars, historyVars, sideVars>>

NextDispatch == SetupApi \/ SendQuery \/ Settle

SpecDispatch == InitDispatch /\ [][NextDispatch]_vars

\* C26: with a key set and any provider of the form selected, no query
\* sent through performWebSearch is rejected as 'Unsupported API type'.
C26_EveryFormApiDispatched ==
    (pc = "threw" /\ Truthy(apiKey) /\ selectedApi \in FormApis)
    => responses[1].message # UnsupportedError

(***************************************************************************)
(* The direct-provider variant: performWebSearch calls the provider from   *)
(* the browser and answers a failed request with the mock results.         *)
(***************************************************************************)
\* the cases of the switch that send a request
requested(api) == api \in {"google", "bing", "serpapi"}

\* performGoogleSearch, performBingSearch, performSerpApiSearch: the mapped
\* items, or an error for a response that is not OK
providerRequest(api) ==
    ApiResponses \cup
    {Thrown(CASE api = "google" -> <<"G","o","o","g","l","e"," ","S","e","a","r","c","h"," ","A","P","I"," ","e","r","r","o","r",
        ":"," ","F","o","r","b","i","d","d","e","n">>
              [] api = "bing" -> <<"B","i","n","g"," ","S","e","a","r","c","h"," ","A","P","I"," ","e","r","r","o","r",":"," ",
        "U","n","a","u","t","h","o","r","i","z","e","d">>
              [] OTHER -> <<"S","e","r","p","A","P","I"," ","e","r","r","o","r",":"," ","U","n","a","u","t","h","o","r",
        "i","z","e","d">>)}

\* the error of a provider thrown on to the loop
fallbackNever(outcome) == outcome

\* catch (error) { return await this.performMockSearch(query) }
fallback(outcome) == IF outcome.thrown THEN MockResponse ELSE outcome

DirectInputs == {<<" ","Z","q"," ","F","u","n","d","i","n","g"," ">>}

InitDirect ==
    /\ NoSide
    /\ pc = "form"
    /\ formInput \in DirectInputs
    /\ apiKey \in ApiKeys
    /\ selectedApi \in FormApis
    /\ issuerName = <<>>
    /\ searchQueries = <<>> /\ searchAttempts = 0 /\ responses = <<>>
    /\ results = <<>> /\ uniqueResults = <<>> /\ searchResults = <<>>
    /\ error = Undefined
    /\ history = <<>> /\ clock = 1 /\ saved = 0
    /\ content = <<>> /\ fileName = <<>> /\ extractedData = Undefined
    /\ captured = <<>> /\ cleanedText = <<>>

\* one turn of the loop over the queries, with performWebSearch of this variant
AttemptDirect ==
    /\ pc = "searching"
    /\ searchAttempts < Len(searchQueries)
    /\ searchAttempts' = searchAttempts + 1
    /\ \E outcome \in IF ~Truthy(apiKey) THEN {Thrown(ConfigError)}
                      ELSE IF requested(selectedApi) THEN providerRequest(selectedApi)
                      ELSE {MockResponse} :
          /\ requests' = IF Truthy(apiKey) /\ requested(selectedApi)
                         THEN Append(requests, outcome) ELSE requests
          /\ \E response \in {IF Truthy(apiKey) THEN fallback(outcome) ELSE outcome} :
                /\ responses' = Append(responses, response)
                /\ results' = collect(results, response, issuerName)
    /\ UNCHANGED <<pc, extractVars, cleanVars, uniqueResults, historyVars, searchResults,
                   formInput, apiKey, selectedApi, searchQueries, error>>
    /\ UNCHANGED <<crawl, form, calls>>

NextDirect == Submit \/ AttemptDirect \/ Finish

SpecDirect == InitDirect /\ [][NextDirect]_vars

FailedRequests == {k \in 1..Len(requests) : requests[k].thrown}

\* C27 as stated: with a key set performWebSearch never throws and the
\* search never ends in the not-found error.
C27_NeverNotFound ==
    Truthy(apiKey)
    => /\ \A k \in 1..Len(responses) : ~responses[k].thrown
       /\ pc # "failed"

\* C27: with a key set performWebSearch never throws; a failed provider
\* request is answered with the mock results, and a search in which a
\* provider request failed never ends in the not-found error.
C27_FallbackToMock ==
    Truthy(apiKey)
    => /\ \A k \in 1..Len(responses) : ~responses[k].thrown
       /\ requested(selectedApi) => Len(requests) = Len(responses)
       /\ \A k \in FailedRequests : responses[k] = MockResponse
       /\ (FailedRequests # {} /\ pc \in {"failed", "returned"}) => pc = "returned"

\* a finished search whose only records come from the one failed request
C27_Witness ==
    /\ pc = "returned"
    /\ Truthy(apiKey)
    /\ FailedRequests = {3}
    /\ \A k \in 1..PlanLength : k # 3 => requests[k] = Response(<<>>)
    /\ results # <<>>

(***************************************************************************)
(* ABCPSearchForm.handleSubmit around the search: isSearching, the         *)
(* progress value and the interval that raises it.                         *)
(***************************************************************************)
ProgressStep == 10
ProgressCeiling == 90

\* Math.min(prev + 10, 90)
progressed(prev) == IF prev + ProgressStep < ProgressCeiling THEN prev + ProgressStep
                    ELSE ProgressCeiling

InitForm ==
    /\ InitSearch
    /\ selectedApi = "mock"

\* handleSubmit up to its await, and the search up to its loop
FormSubmit ==
    /\ pc = "form"
    /\ IF submitIgnored(formInput)
       THEN /\ pc' = "ignored"
            /\ UNCHANGED <<issuerName, searchQueries, form>>
       ELSE /\ pc' = "searching"
            /\ form' = [isSearching |-> TRUE, searchProgress |-> 0,
                        intervals |-> form.intervals + 1]
            /\ issuerName' = trim(formInput)
            /\ searchQueries' = searchQueriesOf(issuerName')
    /\ UNCHANGED <<content, fileName, extractedData, cleanVars, dedupVars, historyVars,
                   searchResults, formInput, apiKey, selectedApi, searchAttempts,
                   responses, error>>
    /\ UNCHANGED <<crawl, calls, requests>>

\* a running interval fires
Tick ==
    /\ form.intervals > 0
    /\ form' = [form EXCEPT !.searchProgress = progressed(@)]
    /\ UNCHANGED <<pc, extractVars, cleanVars, dedupVars, searchVars, historyVars,
                   crawl, calls, requests>>

\* handleSubmit after its await: the rest of the try or the catch, then finally
FormSettles ==
    /\ pc \in {"returned", "failed"}
    /\ form.isSearching
    /\ form' = [isSearching |-> FALSE, searchProgress |-> 0,
                intervals |-> IF pc = "returned" THEN form.intervals - 1
                              ELSE form.intervals]
    /\ pc' = "settled"
    /\ UNCHANGED <<extractVars, cleanVars, dedupVars, searchVars, historyVars,
                   crawl, calls, requests>>

NextForm == FormSubmit \/ Tick \/ AttemptQuery \/ Finish \/ FormSettles

SpecForm == InitForm /\ [][NextForm]_vars

\* C28: when a search started from the form has finished, by success or by
\* failure, isSearching is false, no progress interval is running and the
\* progress value is 0.
C28_FormBackAtRest ==
    pc = "settled" => form = FormAtRest

(***************************************************************************)
(* Searches running at the same time on the one WebSearchService instance: *)
(* each has its own locals and is suspended at its await of                *)
(* performWebSearch; the stored history and the clock are shared.          *)
(***************************************************************************)
MaxCalls == 2

\* the issuer each call searches for
CallName(c) == IF c % 2 = 1 THEN <<"Z","q"," ","F","u","n","d","i","n","g">> ELSE <<"A","B">>

\* the history earlier searches have left: none, or one entry below the cap,
\* or a full history
InitialLengths == {0, HistoryCap - 1, HistoryCap}

NotCalled == [pc |-> "idle", issuerName |-> <<>>, searchAttempts |-> 0, results |-> <<>>]

InitConcurrent ==
    /\ pc = "concurrent"
    /\ crawl = NoCrawl /\ form = FormAtRest /\ requests = <<>>
    /\ calls = [c \in 1..MaxCalls |-> NotCalled]
    /\ \E n \in InitialLengths : history = Stored(n) /\ clock = n + 1
    /\ saved = 0
    /\ apiKey \in ApiKeys
    /\ selectedApi = "mock"
    /\ formInput = <<>> /\ issuerName = <<>>
    /\ searchQueries = <<>> /\ searchAttempts = 0 /\ responses = <<>>
    /\ results = <<>> /\ uniqueResults = <<>> /\ searchResults = <<>>
    /\ error = Undefined
    /\ content = <<>> /\ fileName = <<>> /\ extractedData = Undefined
    /\ captured = <<>> /\ cleanedText = <<>>

\* searchABCPLiquidityProviders is called: up to its first await
CallStarts(c) ==
    /\ calls[c].pc = "idle"
    /\ calls' = [calls EXCEPT ![c] = [pc |-> "searching", issuerName |-> CallName(c),
                                      searchAttempts |-> 0, results |-> <<>>]]
    /\ UNCHANGED <<pc, extractVars, cleanVars, dedupVars, searchVars, historyVars,
                   crawl, form, requests>>

\* the await of call c settles: the rest of the loop turn, up to the next await
CallAttempts(c) ==
    /\ calls[c].pc = "searching"
    /\ calls[c].searchAttempts < PlanLength
    /\ \E response \in performWebSearch(apiKey, selectedApi) :
          calls' = [calls EXCEPT ![c].searchAttempts = @ + 1,
                                 ![c].results = collect(@, response, calls[c].issuerName)]
    /\ UNCHANGED <<pc, extractVars, cleanVars, dedupVars, searchVars, historyVars,
                   crawl, form, requests>>

\* the last await of call c has settled: the save, then the throw or the return
CallFinishes(c) ==
    /\ calls[c].pc = "searching"
    /\ calls[c].searchAttempts = PlanLength
    /\ \E id \in clock..(clock + 1) : \E timestamp \in id..(clock + 1) :
          /\ history' = saveSearchToHistory(history,
                            [id |-> toString(id), issuer |-> calls[c].issuerName,
                             timestamp |-> timestamp, results |-> calls[c].results])
          /\ clock' = timestamp
    /\ saved' = saved + 1
    /\ calls' = [calls EXCEPT ![c].pc = IF notFound(calls[c].results) THEN "failed"
                                        ELSE "returned"]
    /\ UNCHANGED <<pc, extractVars, cleanVars, dedupVars, searchVars, crawl, form, requests>>

NextConcurrent ==
    \E c \in 1..MaxCalls : CallStarts(c) \/ CallAttempts(c) \/ CallFinishes(c)

SpecConcurrent == InitConcurrent /\ [][NextConcurrent]_vars

Finished == {c \in 1..Len(calls) : calls[c].pc \in {"returned", "failed"}}
SameAs(c) ==
    {d \in Finished :
        calls[d].issuerName = calls[c].issuerName /\ calls[d].results = calls[c].results}
EntryOf(c, h) ==
    {i \in 1..Cardinality(Finished) :
        h[i].issuer = calls[c].issuerName /\ h[i].results = calls[c].results}

\* C29: with searches interleaved at their awaits, every search that ends
\* its loop adds exactly one entry to the stored history: the entries of
\* the finished searches are its first entries (as many entries of an
\* issuer and result list as searches finished with them), the entries
\* stored before follow, and only what exceeds 20 entries is dropped.
C29_NoLostUpdate ==
    /\ [](/\ saved = Cardinality(Finished)
          /\ \E n \in InitialLengths :
                /\ Len(history) = Min(n + Cardinality(Finished), HistoryCap)
                /\ \A i \in (Cardinality(Finished) + 1)..Len(history) :
                      history[i] = Stored(n)[i - Cardinality(Finished)]
          /\ \A c \in Finished : Cardinality(EntryOf(c, history)) = Cardinality(SameAs(c)))
    /\ [][/\ Len(history') = Min(Len(history) + Cardinality(Finished' \ Finished), HistoryCap)
          /\ \A i \in 1..Len(history') :
                i > Cardinality(Finished' \ Finished)
                   => history'[i] = history[i - Cardinality(Finished' \ Finished)]]_vars

\* both searches have finished, the second one to start first, and the
\* first one started before the other had made all its attempts
C29_Witness ==
    /\ Finished = {1, 2}
    /\ Len(history) = HistoryCap
    /\ history[1].issuer = CallName(1)
    /\ history[2].issuer = CallName(2)
    /\ history[1].results # <<>>
    /\ history[3] = Stored(HistoryCap - 1)[1]

====
